---- MODULE Spec2Model ----
(***************************************************************************)
(* Model of the Grid manufactured-batch smart contract: the address codec, *)
(* the wire codec of the Record List, the ledger entry merge engine        *)
(* (MfgBatchState), the transaction handler                                *)
(* (MfgBatchTransactionHandler) and the relational projection store        *)
(* (DieselMfgBatchStore).                                                  *)
(*                                                                         *)
(* Strings are sequences of character codes ("0" is 48, "1" is 49, ...),   *)
(* so that padding, comparison and sorting are computed as the code        *)
(* computes them.  The ledger maps an address to a sequence of bytes.      *)
(***************************************************************************)
EXTENDS Integers, Sequences, FiniteSets, TLC

VARIABLES
    ledger,     \* TransactionContext: address -> bytes (absent = not in DOMAIN)
    result,     \* the value returned by the last call
    last,       \* the last call and the inputs it read
    expected,   \* history variable: id -> the batch last written and not removed
    db          \* the relational database: the rows of its two tables, in id order

vars == <<ledger, result, last, expected, db>>

\* Option<T>: None is the empty sequence, Some(x) the sequence of x alone
None == <<>>

Some(x) == <<x>>

\* the value of Ok(())
Unit == <<"unit">>

(***************************************************************************)
(* Bounds and input sets                                                   *)
(***************************************************************************)
NumIds == 3

\* "1", "01", "2", "001": the first two (and the fourth) pad to one address.
IdPool == << <<49>>, <<48, 49>>, <<50>>, <<48, 48, 49>>, <<49, 48>> >>

Ids == {IdPool[i] : i \in 1..NumIds}

\* the ids transactions name
NumTxIds == 2

TxIds == {IdPool[i] : i \in 1..NumTxIds}

\* organisation ids "A" and "B"
Owners == {<<65>>, <<66>>}

(***************************************************************************)
(* Address codec                                                           *)
(***************************************************************************)
GRID_NAMESPACE == <<49, 49, 98, 98, 48, 101>>

MFG_BATCH_PREFIX == <<48, 49>>

PadWidth == 14

Zeros(n) == [i \in 1..n |-> 48]

\* format!("{:0>14}", gtin): fill on the left with '0' up to the width; a
\* longer string is left as it is.
\* the fill goes behind the key
LeftPad_Trailing(s, w) == IF Len(s) >= w THEN s ELSE s \o Zeros(w - Len(s))

\* format!("{:0>14}", ..): the fill goes in front, and a longer string is kept whole
LeftPad(s, w) == IF Len(s) >= w THEN s ELSE Zeros(w - Len(s)) \o s

compute_gs1_mfg_batch_address(gtin) ==
    GRID_NAMESPACE \o MFG_BATCH_PREFIX \o <<48, 49>> \o Zeros(44)
        \o LeftPad(gtin, PadWidth) \o <<48, 48>>

Addresses == {compute_gs1_mfg_batch_address(id) : id \in Ids}

(***************************************************************************)
(* Domain values                                                           *)
(***************************************************************************)
\* PropertyValue: a name, a data type, the value slot of that type and the children
\* of a struct.
PropertyValue(n, t, v) == [name |-> n, data_type |-> t, value |-> v, struct_values |-> <<>>]

\* a property of the data type Struct with its children
StructValue(n, children) ==
    [name |-> n, data_type |-> "Struct", value |-> 0, struct_values |-> children]

Description == PropertyValue(<<100>>, "String", 7)

Counter == PropertyValue(<<99>>, "Number", 3)

CounterAsString == PropertyValue(<<99>>, "String", 3)

Unknown == PropertyValue(<<120>>, "Number", 1)

Counter2 == PropertyValue(<<99>>, "Number", 4)

\* the property lists a stored batch carries in this model
PropLists == {<<Description>>, <<Counter, Description>>}

\* MfgBatch
MfgBatch(id, ns, o, ps) ==
    [mfg_batch_id |-> id, mfg_batch_namespace |-> ns, owner |-> o, properties |-> ps]

BatchesOf(id) == {MfgBatch(id, "Gs1", o, ps) : o \in Owners, ps \in PropLists}

(***************************************************************************)
(* Wire codec.  A string is its length followed by its characters, an enum *)
(* is its ordinal, a repeated field is a run of length-prefixed entries.   *)
(***************************************************************************)
RECURSIVE Concat(_)
Concat(ss) == IF ss = <<>> THEN <<>> ELSE Head(ss) \o Concat(Tail(ss))

EncStr(s) == <<Len(s)>> \o s

\* MfgBatch_MfgBatchNamespace: UNSET_TYPE = 0, GS1 = 1
NamespaceCode(ns) == IF ns = "Gs1" THEN 1 ELSE 0

\* DataType ordinals of the schema protocol
DataTypeCode(t) ==
    IF t = "Number" THEN 3 ELSE IF t = "String" THEN 4 ELSE IF t = "Struct" THEN 6 ELSE 0

\* PropertyValue::into_proto: the name, the data type, the value slot and the
\* struct_values, each of them a property
RECURSIVE EncProperty(_)
EncProperty(p) ==
    EncStr(p.name) \o <<DataTypeCode(p.data_type), p.value, Len(p.struct_values)>>
        \o Concat([i \in 1..Len(p.struct_values) |-> EncProperty(p.struct_values[i])])

\* FromNative<MfgBatch>
EncMfgBatch(b) ==
    EncStr(b.mfg_batch_id) \o <<NamespaceCode(b.mfg_batch_namespace)>>
        \o EncStr(b.owner)
        \o <<Len(b.properties)>>
        \o Concat([i \in 1..Len(b.properties) |-> EncProperty(b.properties[i])])

\* IntoBytes for MfgBatchList: each entry length-prefixed
MfgBatchList_into_bytes(mfg_batches) ==
    Concat([i \in 1..Len(mfg_batches) |->
              <<Len(EncMfgBatch(mfg_batches[i]))>> \o EncMfgBatch(mfg_batches[i])])

Fail == [ok |-> FALSE]

\* a length-prefixed string at position pos
ParseStr(bs, pos) ==
    IF pos > Len(bs) THEN Fail
    ELSE IF pos + bs[pos] > Len(bs) THEN Fail
    ELSE [ok |-> TRUE, val |-> SubSeq(bs, pos + 1, pos + bs[pos]),
          next |-> pos + bs[pos] + 1]

\* the properties that follow a count, each with its own struct_values
RECURSIVE ParseProperty(_, _)
RECURSIVE ParseProperties(_, _, _)

\* the struct_values of a property of name n that is read up to pos, then the property
ParseStructValues(bs, n, pos) ==
    LET sv == ParseProperties(bs, pos + 3, bs[pos + 2]) IN
    IF ~sv.ok THEN Fail
    ELSE [ok |-> TRUE,
          val |-> [name |-> n,
                   data_type |-> IF bs[pos] = 3 THEN "Number"
                                 ELSE IF bs[pos] = 4 THEN "String" ELSE "Struct",
                   value |-> bs[pos + 1], struct_values |-> sv.val],
          next |-> sv.next]

\* PropertyValue::from_proto: the data type UNSET_DATA_TYPE does not convert
ParseProperty(bs, pos) ==
    LET n == ParseStr(bs, pos) IN
    IF ~n.ok THEN Fail
    ELSE IF n.next + 2 > Len(bs) THEN Fail
    ELSE IF bs[n.next] \notin {3, 4, 6} THEN Fail
    ELSE ParseStructValues(bs, n.val, n.next)

ParseProperties(bs, pos, count) ==
    IF count = 0 THEN [ok |-> TRUE, val |-> <<>>, next |-> pos]
    ELSE LET p == ParseProperty(bs, pos) IN
         IF ~p.ok THEN Fail
         ELSE LET rest == ParseProperties(bs, p.next, count - 1) IN
              IF ~rest.ok THEN Fail
              ELSE [ok |-> TRUE, val |-> <<p.val>> \o rest.val, next |-> rest.next]

\* FromProto<MfgBatch>: the namespace UNSET_TYPE does not convert
ParseMfgBatch(bs) ==
    LET id == ParseStr(bs, 1) IN
    IF ~id.ok THEN Fail
    ELSE IF id.next > Len(bs) THEN Fail
    ELSE IF bs[id.next] # 1 THEN Fail
    ELSE LET o == ParseStr(bs, id.next + 1) IN
         IF ~o.ok THEN Fail
         ELSE IF o.next > Len(bs) THEN Fail
         ELSE LET ps == ParseProperties(bs, o.next + 1, bs[o.next]) IN
              IF ~ps.ok THEN Fail
              ELSE IF ps.next # Len(bs) + 1 THEN Fail
              ELSE [ok |-> TRUE, val |-> MfgBatch(id.val, "Gs1", o.val, ps.val)]

RECURSIVE ParseEntries(_, _)
ParseEntries(bs, pos) ==
    IF pos > Len(bs) THEN [ok |-> TRUE, val |-> <<>>]
    ELSE IF pos + bs[pos] > Len(bs) THEN Fail
    ELSE LET b == ParseMfgBatch(SubSeq(bs, pos + 1, pos + bs[pos])) IN
         IF ~b.ok THEN Fail
         ELSE LET rest == ParseEntries(bs, pos + bs[pos] + 1) IN
              IF ~rest.ok THEN Fail
              ELSE [ok |-> TRUE, val |-> <<b.val>> \o rest.val]

\* FromBytes<MfgBatchList>: Ok(list) or Err; empty bytes parse as the empty list
MfgBatchList_from_bytes(bytes) == ParseEntries(bytes, 1)

(***************************************************************************)
(* Results (Result<_, ApplyError>) and the key-value substrate             *)
(***************************************************************************)
Ok(v) == [kind |-> "Ok", value |-> v]

InternalError(m) == [kind |-> "InternalError", msg |-> m, arg |-> <<>>]

InvalidTransaction(m) == [kind |-> "InvalidTransaction", msg |-> m, arg |-> <<>>]

\* an InvalidTransaction whose message names a string (an id, a property name)
InvalidTransactionOf(m, a) == [kind |-> "InvalidTransaction", msg |-> m, arg |-> a]

get_state_entry(st, address) == IF address \in DOMAIN st THEN Some(st[address]) ELSE None

set_state_entry(st, address, data) ==
    [a \in DOMAIN st \cup {address} |-> IF a = address THEN data ELSE st[a]]

delete_state_entries(st, address) == [a \in DOMAIN st \ {address} |-> st[a]]

(***************************************************************************)
(* Ordering of strings (String's Ord: bytewise lexicographic) and the      *)
(* stable sort of Vec::sort_by_key                                         *)
(***************************************************************************)
StrLess(a, b) ==
    \E k \in 1..(Len(b)) :
        /\ \A j \in 1..(k - 1) : j <= Len(a) /\ a[j] = b[j]
        /\ \/ k = Len(a) + 1
           \/ k <= Len(a) /\ a[k] < b[k]

\* the new element always goes to the front
InsertByKey_Front(sorted, x) == <<x>> \o sorted

\* x goes behind every element whose key is not greater: equal keys keep their order
InsertByKey(sorted, x) ==
    LET n == Cardinality({i \in 1..Len(sorted) :
                            ~StrLess(x.mfg_batch_id, sorted[i].mfg_batch_id)})
    IN SubSeq(sorted, 1, n) \o <<x>> \o SubSeq(sorted, n + 1, Len(sorted))

\* the sort left out: the list stays in push order
sort_by_key_NoSort(s) == s

RECURSIVE sort_by_key(_)
sort_by_key(s) ==
    IF s = <<>> THEN <<>>
    ELSE InsertByKey(sort_by_key(SubSeq(s, 1, Len(s) - 1)), s[Len(s)])

(***************************************************************************)
(* MfgBatchState: the ledger entry merge engine                            *)
(***************************************************************************)
\* iter().find(..): the first element with that id
Find(mfg_batches, mfg_batch_id) ==
    LET hits == {i \in 1..Len(mfg_batches) : mfg_batches[i].mfg_batch_id = mfg_batch_id}
    IN IF hits = {} THEN 0 ELSE CHOOSE i \in hits : \A j \in hits : i <= j

RemoveAt(s, i) == SubSeq(s, 1, i - 1) \o SubSeq(s, i + 1, Len(s))

\* every element is filtered out, not only the one with the id
Filter_All(s, mfg_batch_id) == <<>>

Filter(s, mfg_batch_id) ==
    LET RECURSIVE F(_)
        F(t) == IF t = <<>> THEN <<>>
                ELSE IF Head(t).mfg_batch_id # mfg_batch_id
                     THEN <<Head(t)>> \o F(Tail(t))
                     ELSE F(Tail(t))
    IN F(s)

\* the element with the id is not dropped before the push
Merge_NoRemove(mfg_batches, mfg_batch_id, mfg_batch) ==
    sort_by_key(Append(mfg_batches, mfg_batch))

\* the Record List read from the address is dropped: only the new batch is written
Merge_Overwrite(mfg_batches, mfg_batch_id, mfg_batch) == <<mfg_batch>>

\* set_mfg_batch, the merge: drop the first element with the id, push, sort
Merge(mfg_batches, mfg_batch_id, mfg_batch) ==
    LET index == Find(mfg_batches, mfg_batch_id)
        removed == IF index # 0 THEN RemoveAt(mfg_batches, index) ELSE mfg_batches
    IN sort_by_key(Append(removed, mfg_batch))

\* the match on iter().find(..): Some(batch) cloned, or None
Found(mfg_batches, i) == IF i = 0 THEN Ok(None) ELSE Ok(Some(mfg_batches[i]))

\* get_mfg_batch, after the decode: a decode failure reported as an absent batch
GetDecoded_AbsentOnError(decoded, mfg_batch_id) ==
    IF ~decoded.ok THEN Ok(None)
    ELSE Found(decoded.val, Find(decoded.val, mfg_batch_id))

\* get_mfg_batch, after the decode
GetDecoded(decoded, mfg_batch_id) ==
    IF ~decoded.ok THEN InternalError("Cannot deserialize mfg_batch list")
    ELSE Found(decoded.val, Find(decoded.val, mfg_batch_id))

\* get_mfg_batch, after get_state_entry
GetEntry(d, mfg_batch_id) ==
    IF d = None THEN Ok(None)
    ELSE GetDecoded(MfgBatchList_from_bytes(d[1]), mfg_batch_id)

get_mfg_batch(st, mfg_batch_id) ==
    GetEntry(get_state_entry(st, compute_gs1_mfg_batch_address(mfg_batch_id)), mfg_batch_id)

\* the list an operation that writes starts from: an absent entry is the empty list
DecodeOrEmpty(d) ==
    IF d = None THEN [ok |-> TRUE, val |-> <<>>] ELSE MfgBatchList_from_bytes(d[1])

\* the merged list is written before its encoding is known to have failed
SetDecoded_WriteThenFail(st, address, decoded, mfg_batch_id, mfg_batch, codec_ok) ==
    IF ~decoded.ok
    THEN [res |-> InternalError("Cannot deserialize mfg_batch list"), st |-> st]
    ELSE [res |-> IF codec_ok THEN Ok(Unit)
                  ELSE InvalidTransaction("Cannot serialize mfg_batch list"),
          st |-> set_state_entry(st, address,
                     MfgBatchList_into_bytes(Merge(decoded.val, mfg_batch_id, mfg_batch)))]

\* set_mfg_batch, after the decode; codec_ok: whether into_bytes of the merged
\* list succeeds
SetDecoded(st, address, decoded, mfg_batch_id, mfg_batch, codec_ok) ==
    IF ~decoded.ok
    THEN [res |-> InternalError("Cannot deserialize mfg_batch list"), st |-> st]
    ELSE IF ~codec_ok
    THEN [res |-> InvalidTransaction("Cannot serialize mfg_batch list"), st |-> st]
    ELSE [res |-> Ok(Unit),
          st |-> set_state_entry(st, address,
                     MfgBatchList_into_bytes(Merge(decoded.val, mfg_batch_id, mfg_batch)))]

SetAt(st, address, mfg_batch_id, mfg_batch, codec_ok) ==
    SetDecoded(st, address, DecodeOrEmpty(get_state_entry(st, address)),
               mfg_batch_id, mfg_batch, codec_ok)

set_mfg_batch(st, mfg_batch_id, mfg_batch, codec_ok) ==
    SetAt(st, compute_gs1_mfg_batch_address(mfg_batch_id), mfg_batch_id, mfg_batch, codec_ok)

\* remove_mfg_batch, after the filter: the filtered list is written back even
\* when it is empty
RemoveFiltered_WriteEmpty(st, address, filtered_mfg_batches, codec_ok) ==
    [res |-> Ok(Unit),
     st |-> set_state_entry(st, address, MfgBatchList_into_bytes(filtered_mfg_batches))]

\* remove_mfg_batch, after the filter
RemoveFiltered(st, address, filtered_mfg_batches, codec_ok) ==
    IF filtered_mfg_batches = <<>>
    THEN [res |-> Ok(Unit), st |-> delete_state_entries(st, address)]
    ELSE IF ~codec_ok
    THEN [res |-> InternalError("Cannot serialize mfg_batch list"), st |-> st]
    ELSE [res |-> Ok(Unit),
          st |-> set_state_entry(st, address, MfgBatchList_into_bytes(filtered_mfg_batches))]

\* remove_mfg_batch, after the decode
RemoveDecoded(st, address, decoded, mfg_batch_id, codec_ok) ==
    IF ~decoded.ok
    THEN [res |-> InternalError("Cannot deserialize mfg_batch list"), st |-> st]
    ELSE RemoveFiltered(st, address, Filter(decoded.val, mfg_batch_id), codec_ok)

RemoveAtAddress(st, address, mfg_batch_id, codec_ok) ==
    RemoveDecoded(st, address, DecodeOrEmpty(get_state_entry(st, address)),
                  mfg_batch_id, codec_ok)

remove_mfg_batch(st, mfg_batch_id, codec_ok) ==
    RemoveAtAddress(st, compute_gs1_mfg_batch_address(mfg_batch_id), mfg_batch_id, codec_ok)

(***************************************************************************)
(* The engine driven directly: one action per operation                    *)
(***************************************************************************)
EmptyLedger == [a \in {} |-> <<>>]

\* the two tables of the projection store, without rows
EmptyDb == [mfg_batch |-> <<>>, mfg_batch_property_value |-> <<>>]

IsSome(r) == r.kind = "Ok" /\ r.value # None

\* whether the batch is in the Record List at its address (for the record in last)
Exists(st, id) == IsSome(get_mfg_batch(st, id))

Init ==
    /\ ledger = EmptyLedger
    /\ result = Ok(Unit)
    /\ last = [op |-> "init"]
    /\ expected = [id \in Ids |-> None]
    /\ db = EmptyDb

\* an operation that returned r = [res, st]: obs is what last records of it, now
\* the batch the id maps to if the operation succeeded
Commit(r, obs, now) ==
    /\ ledger' = r.st
    /\ result' = r.res
    /\ last' = obs
    /\ expected' = IF r.res.kind = "Ok" THEN [expected EXCEPT ![obs.id] = now]
                   ELSE expected
    /\ UNCHANGED db

GetMfgBatch ==
    \E id \in Ids :
        /\ result' = get_mfg_batch(ledger, id)
        /\ last' = [op |-> "get", id |-> id, existed |-> Exists(ledger, id)]
        /\ UNCHANGED <<ledger, expected, db>>

SetStep(id, mfg_batch, codec_ok) ==
    Commit(set_mfg_batch(ledger, id, mfg_batch, codec_ok),
           [op |-> "set", id |-> id, mfg_batch |-> mfg_batch, existed |-> Exists(ledger, id)],
           Some(mfg_batch))

RemoveStep(id, codec_ok) ==
    Commit(remove_mfg_batch(ledger, id, codec_ok),
           [op |-> "remove", id |-> id, existed |-> Exists(ledger, id)], None)

SetMfgBatch == \E id \in Ids : \E mfg_batch \in BatchesOf(id) : SetStep(id, mfg_batch, TRUE)

RemoveMfgBatch == \E id \in Ids : RemoveStep(id, TRUE)

Next == GetMfgBatch \/ SetMfgBatch \/ RemoveMfgBatch

Spec == Init /\ [][Next]_vars

(***************************************************************************)
(* The engine on a ledger that holds blobs it did not write, and with a    *)
(* codec whose encoding may fail                                           *)
(***************************************************************************)
\* an entry announcing nine bytes and holding two
Truncated == <<9, 1, 49>>

\* a well-formed entry whose namespace is UNSET_TYPE
UnsetNamespace == MfgBatchList_into_bytes(<<MfgBatch(<<49>>, "Unset", <<65>>, <<>>)>>)

CorruptBlobs == {Truncated, UnsetNamespace}

\* some of the addresses of A hold a blob that does not decode
CorruptAt(A) ==
    /\ \E S \in SUBSET A : ledger \in [S -> CorruptBlobs]
    /\ result = Ok(Unit)
    /\ last = [op |-> "init"]
    /\ expected = [id \in Ids |-> None]
    /\ db = EmptyDb

InitCorrupt == CorruptAt(Addresses)

SetMfgBatchCodec ==
    \E id \in Ids : \E mfg_batch \in BatchesOf(id) : \E codec_ok \in BOOLEAN :
        SetStep(id, mfg_batch, codec_ok)

RemoveMfgBatchCodec == \E id \in Ids : \E codec_ok \in BOOLEAN : RemoveStep(id, codec_ok)

NextFaulty == GetMfgBatch \/ SetMfgBatchCodec \/ RemoveMfgBatchCodec

SpecFaulty == InitCorrupt /\ [][NextFaulty]_vars

(***************************************************************************)
(* The engine on a context that logs the calls made on it: ctx.st is the   *)
(* ledger, ctx.log the calls in the order they were made, each the kind of *)
(* the call and its address                                                *)
(***************************************************************************)
\* context.get_state_entry(&address): the entry, and the context after the call
ctx_get_state_entry(ctx, address) ==
    [d |-> get_state_entry(ctx.st, address),
     ctx |-> [st |-> ctx.st, log |-> Append(ctx.log, <<"get", address>>)]]

\* context.set_state_entry(address, data)
ctx_set_state_entry(ctx, address, data) ==
    [st |-> set_state_entry(ctx.st, address, data),
     log |-> Append(ctx.log, <<"set", address>>)]

\* context.delete_state_entries(&[address])
ctx_delete_state_entries(ctx, address) ==
    [st |-> delete_state_entries(ctx.st, address),
     log |-> Append(ctx.log, <<"delete", address>>)]

\* get_mfg_batch
LoggedGet(ctx, mfg_batch_id) ==
    LET r == ctx_get_state_entry(ctx, compute_gs1_mfg_batch_address(mfg_batch_id))
    IN [res |-> GetEntry(r.d, mfg_batch_id), ctx |-> r.ctx]

\* the entry is read again after it was written
LoggedSetDecoded_ReadBack(ctx, address, decoded, mfg_batch_id, mfg_batch, codec_ok) ==
    IF ~decoded.ok
    THEN [res |-> InternalError("Cannot deserialize mfg_batch list"), ctx |-> ctx]
    ELSE IF ~codec_ok
    THEN [res |-> InvalidTransaction("Cannot serialize mfg_batch list"), ctx |-> ctx]
    ELSE [res |-> Ok(Unit),
          ctx |-> ctx_get_state_entry(
                      ctx_set_state_entry(ctx, address,
                          MfgBatchList_into_bytes(Merge(decoded.val, mfg_batch_id, mfg_batch))),
                      address).ctx]

\* set_mfg_batch, after the decode
LoggedSetDecoded(ctx, address, decoded, mfg_batch_id, mfg_batch, codec_ok) ==
    IF ~decoded.ok
    THEN [res |-> InternalError("Cannot deserialize mfg_batch list"), ctx |-> ctx]
    ELSE IF ~codec_ok
    THEN [res |-> InvalidTransaction("Cannot serialize mfg_batch list"), ctx |-> ctx]
    ELSE [res |-> Ok(Unit),
          ctx |-> ctx_set_state_entry(ctx, address,
                      MfgBatchList_into_bytes(Merge(decoded.val, mfg_batch_id, mfg_batch)))]

\* set_mfg_batch
LoggedSet(ctx, mfg_batch_id, mfg_batch, codec_ok) ==
    LET address == compute_gs1_mfg_batch_address(mfg_batch_id)
        r == ctx_get_state_entry(ctx, address)
    IN LoggedSetDecoded(r.ctx, address, DecodeOrEmpty(r.d), mfg_batch_id, mfg_batch, codec_ok)

\* remove_mfg_batch, after the decode
LoggedRemoveDecoded(ctx, address, decoded, mfg_batch_id, codec_ok) ==
    IF ~decoded.ok
    THEN [res |-> InternalError("Cannot deserialize mfg_batch list"), ctx |-> ctx]
    ELSE IF Filter(decoded.val, mfg_batch_id) = <<>>
    THEN [res |-> Ok(Unit), ctx |-> ctx_delete_state_entries(ctx, address)]
    ELSE IF ~codec_ok
    THEN [res |-> InternalError("Cannot serialize mfg_batch list"), ctx |-> ctx]
    ELSE [res |-> Ok(Unit),
          ctx |-> ctx_set_state_entry(ctx, address,
                      MfgBatchList_into_bytes(Filter(decoded.val, mfg_batch_id)))]

\* remove_mfg_batch
LoggedRemove(ctx, mfg_batch_id, codec_ok) ==
    LET address == compute_gs1_mfg_batch_address(mfg_batch_id)
        r == ctx_get_state_entry(ctx, address)
    IN LoggedRemoveDecoded(r.ctx, address, DecodeOrEmpty(r.d), mfg_batch_id, codec_ok)

\* an operation on a fresh context that returned r = [res, ctx]
CommitLogged(r, op, id) ==
    /\ ledger' = r.ctx.st
    /\ result' = r.res
    /\ last' = [op |-> op, id |-> id, log |-> r.ctx.log]
    /\ UNCHANGED <<expected, db>>

GetLogged == \E id \in Ids : CommitLogged(LoggedGet([st |-> ledger, log |-> <<>>], id), "get", id)

SetLogged ==
    \E id \in Ids : \E mfg_batch \in BatchesOf(id) : \E codec_ok \in BOOLEAN :
        CommitLogged(LoggedSet([st |-> ledger, log |-> <<>>], id, mfg_batch, codec_ok), "set", id)

RemoveLogged ==
    \E id \in Ids : \E codec_ok \in BOOLEAN :
        CommitLogged(LoggedRemove([st |-> ledger, log |-> <<>>], id, codec_ok), "remove", id)

NextLogged == GetLogged \/ SetLogged \/ RemoveLogged

SpecLogged == InitCorrupt /\ [][NextLogged]_vars

(***************************************************************************)
(* The transaction handler.  A transaction is its payload (action, id,     *)
(* namespace, timestamp, owner, properties) and what the handler reads of  *)
(* the rest of the ledger while it runs: the outcome of the permission     *)
(* check, of the GTIN validation, the owner's organization and the gs1     *)
(* schema.  Each input is drawn where the handler reads it; last records   *)
(* it, "unread" (or the empty sequence) standing for an input never read.  *)
(***************************************************************************)
\* the property lists of payloads
TxPropLists ==
    { <<Counter, Description>>, <<Counter2, Description>>, <<Description>>,
      <<CounterAsString, Description>>, <<Counter, Description, Unknown>> }

\* owner fields of create payloads: "A", "B" and the unset field
TxOwners == Owners \cup {<<>>}

\* PermissionChecker::has_permission: Ok(true), Ok(false), Err
PermOutcomes == {"true", "false", "error"}

AlternateId(t, id) == [id_type |-> t, id |-> id]

\* get_organization: no organization, one without alternate ids, one that owns
\* the GS1 company prefix "1", one that owns "2"
Organization(tag) ==
    IF tag = "none" THEN None
    ELSE IF tag = "no_prefix" THEN Some([alternate_ids |-> <<>>])
    ELSE IF tag = "prefix_1"
         THEN Some([alternate_ids |-> <<AlternateId("gs1_company_prefix", <<49>>)>>])
    ELSE Some([alternate_ids |-> <<AlternateId("location", <<57>>),
                                   AlternateId("gs1_company_prefix", <<50>>)>>])

OrgTags == {"none", "no_prefix", "prefix_1", "prefix_2"}

\* get_organization: the organization list of the owner's address decodes or not
get_organization(tag) ==
    IF tag = "corrupt" THEN InternalError("Cannot deserialize organization list")
    ELSE Ok(Organization(tag))

PropertyDefinition(n, t, r) == [name |-> n, data_type |-> t, required |-> r]

\* get_schema("gs1_mfg_batch"): not defined, or counter (Number) and
\* description (String), both required, and an optional note (String)
Schema(tag) ==
    IF tag = "none" THEN None
    ELSE Some([properties |-> << PropertyDefinition(<<99>>, "Number", TRUE),
                                 PropertyDefinition(<<100>>, "String", TRUE),
                                 PropertyDefinition(<<110>>, "String", FALSE) >>])

SchemaTags == {"none", "gs1"}

\* get_schema: the schema list of the schema's address decodes or not
get_schema(tag) ==
    IF tag = "corrupt" THEN InvalidTransaction("Cannot deserialize schema list")
    ELSE Ok(Schema(tag))

\* what a run may meet outside the batch addresses: every entry decodes and every
\* list encodes, or not
Healthy == [codec |-> {TRUE}, orgs |-> OrgTags, schemas |-> SchemaTags]

Faulty == [codec |-> BOOLEAN, orgs |-> OrgTags \cup {"corrupt"},
           schemas |-> SchemaTags \cup {"corrupt"}]

validate_timestamp(timestamp) ==
    IF timestamp = 0 THEN InvalidTransaction("Timestamp is not set") ELSE Ok(Unit)

validate_mfg_batch_create_action(mfg_batch_id, owner) ==
    IF mfg_batch_id = <<>> THEN InvalidTransaction("mfg_batch_id cannot be empty string")
    ELSE IF owner = <<>> THEN InvalidTransaction("Owner cannot be empty string")
    ELSE Ok(Unit)

\* str::contains
Contains(s, sub) ==
    \E i \in 0..(Len(s) - Len(sub)) : SubSeq(s, i + 1, i + Len(sub)) = sub

\* the least index of a set of indices, or 0: what Iterator::find stops at
First(hits) == IF hits = {} THEN 0 ELSE CHOOSE i \in hits : \A j \in hits : i <= j

\* the Permission each handler passes to check_permission
PermissionName(op) ==
    IF op = "create" THEN "CanCreateMfgBatch"
    ELSE IF op = "update" THEN "CanUpdateMfgBatch"
    ELSE "CanDeleteMfgBatch"

check_permission(outcome, permission, record_owner) ==
    IF outcome = "true" THEN Ok(Unit)
    ELSE IF outcome = "false"
    THEN [kind |-> "InvalidTransaction", msg |-> "The signer does not have the permission",
          arg |-> record_owner, permission |-> permission]
    ELSE [kind |-> "InvalidTransaction", msg |-> "Permission check failed",
          arg |-> <<>>, permission |-> "unnamed"]

\* the organization must hold a gs1_company_prefix that the id contains
CheckCompanyPrefix(org, mfg_batch_id) ==
    LET ids == org.alternate_ids
        i == First({k \in 1..Len(ids) : ids[k].id_type = "gs1_company_prefix"})
    IN IF i = 0
       THEN InvalidTransaction("The agents organization does not have the gs1_company_prefix prefix")
       ELSE IF ~Contains(mfg_batch_id, ids[i].id)
       THEN InvalidTransaction("The agents organization does not own the GS1 company prefix in the GTIN mfg_batch_id")
       ELSE Ok(Unit)

\* a required property is looked up by its name alone, whatever its data type
CheckSchema_NamesOnly(schema, properties) ==
    LET defs == schema.properties
        u == First({k \in 1..Len(properties) :
                       \A j \in 1..Len(defs) : defs[j].name # properties[k].name})
        m == First({j \in 1..Len(defs) :
                       /\ defs[j].required
                       /\ ~\E k \in 1..Len(properties) : properties[k].name = defs[j].name})
    IN IF u # 0
       THEN InvalidTransactionOf("is not a property that is defined by the gs1 schema",
                                 properties[u].name)
       ELSE IF m # 0
       THEN InvalidTransactionOf("Missing required field", defs[m].name)
       ELSE Ok(Unit)

\* every payload property is defined by the schema, and every required property
\* of the schema is in the payload with its name and its data type
CheckSchema(schema, properties) ==
    LET defs == schema.properties
        u == First({k \in 1..Len(properties) :
                       \A j \in 1..Len(defs) : defs[j].name # properties[k].name})
        m == First({j \in 1..Len(defs) :
                       /\ defs[j].required
                       /\ ~\E k \in 1..Len(properties) :
                              /\ properties[k].name = defs[j].name
                              /\ properties[k].data_type = defs[j].data_type})
    IN IF u # 0
       THEN InvalidTransactionOf("is not a property that is defined by the gs1 schema",
                                 properties[u].name)
       ELSE IF m # 0
       THEN InvalidTransactionOf("Missing required field", defs[m].name)
       ELSE Ok(Unit)

\* MfgBatchBuilder::build
MfgBatchBuilder_build(mfg_batch_id, mfg_batch_namespace, owner, properties) ==
    MfgBatch(mfg_batch_id, mfg_batch_namespace, owner, properties)

\* the owner update_mfg_batch gives the batch it writes: the stored batch's
UpdatedOwner_Unset(mfg_batch) == <<>>

UpdatedOwner(mfg_batch) == mfg_batch.owner

\* what last holds before anything but the payload's action and id are read
Unread(op, id) ==
    [op |-> op, id |-> id, existed |-> Exists(ledger, id), decoded |-> FALSE,
     timestamp |-> 0, owner |-> <<>>, perm |-> "unread", gtin |-> "unread",
     org |-> "unread", schema |-> "unread", properties |-> <<>>]

\* the transaction is rejected: nothing is written
Reject(res, obs) ==
    /\ result' = res
    /\ last' = obs
    /\ UNCHANGED <<ledger, expected, db>>

\* the schema checks create and update share, then the build of the batch and
\* set_mfg_batch; now is the owner a reader of the transactions expects
SchemaThenSet(obs0, E, owner, now) ==
    \E tag \in E.schemas :
        LET obs1 == [obs0 EXCEPT !.schema = tag]
            s == get_schema(tag)
        IN IF s.kind # "Ok" THEN Reject(s, obs1)
           ELSE IF s.value = None
           THEN Reject(InvalidTransaction("gs1_mfg_batch schema has not been defined"), obs1)
           ELSE \E properties \in TxPropLists :
               LET obs2 == [obs1 EXCEPT !.properties = properties]
                   c == CheckSchema(s.value[1], properties)
               IN IF c.kind # "Ok" THEN Reject(c, obs2)
                  ELSE \E codec_ok \in E.codec :
                      Commit(set_mfg_batch(ledger, obs0.id,
                                 MfgBatchBuilder_build(obs0.id, "Gs1", owner, properties),
                                 codec_ok),
                             obs2, Some(MfgBatch(obs0.id, "Gs1", now, properties)))

\* the existence check left out of create_mfg_batch
is_some_Never(found) == FALSE

\* Option::is_some on what get_mfg_batch found
is_some(found) == found # None

\* create_mfg_batch, from the existence check on; g is what get_mfg_batch returned
CreateChecked(obs2, E, g) ==
    IF g.kind # "Ok" THEN Reject(g, obs2)
    ELSE IF is_some(g.value)
    THEN Reject(InvalidTransactionOf("Product already exists", obs2.id), obs2)
    ELSE \E gtin \in {"valid", "invalid"} :
        LET obs3 == [obs2 EXCEPT !.gtin = gtin] IN
        IF gtin = "invalid" THEN Reject(InvalidTransaction("Invalid gtin"), obs3)
        ELSE \E tag \in E.orgs :
            LET obs4 == [obs3 EXCEPT !.org = tag]
                org == get_organization(tag)
            IN IF org.kind # "Ok" THEN Reject(org, obs4)
               ELSE IF org.value = None
               THEN Reject(InvalidTransaction("The Agent's organization does not exist"), obs4)
               ELSE IF CheckCompanyPrefix(org.value[1], obs2.id).kind # "Ok"
               THEN Reject(CheckCompanyPrefix(org.value[1], obs2.id), obs4)
               ELSE SchemaThenSet(obs4, E, obs2.owner, obs2.owner)

\* create_mfg_batch with the existence check before the permission check
create_mfg_batch_ExistenceFirst(obs0, E) ==
    IF Exists(ledger, obs0.id)
    THEN Reject(InvalidTransactionOf("Product already exists", obs0.id), obs0)
    ELSE \E perm \in PermOutcomes :
        LET obs2 == [obs0 EXCEPT !.perm = perm]
            p == check_permission(perm, PermissionName("create"), obs0.owner)
        IN IF p.kind # "Ok" THEN Reject(p, obs2)
           ELSE CreateChecked(obs2, E, get_mfg_batch(ledger, obs0.id))

create_mfg_batch(obs0, E) ==
    \E perm \in PermOutcomes :
        LET obs2 == [obs0 EXCEPT !.perm = perm]
            p == check_permission(perm, PermissionName("create"), obs0.owner)
        IN IF p.kind # "Ok" THEN Reject(p, obs2)
           ELSE CreateChecked(obs2, E, get_mfg_batch(ledger, obs0.id))

\* update_mfg_batch, from the existence check on
UpdateFound(obs0, E, g) ==
    IF g.kind # "Ok" THEN Reject(g, obs0)
    ELSE IF g.value = None
    THEN Reject(InvalidTransactionOf("No mfg_batch exists", obs0.id), obs0)
    ELSE \E perm \in PermOutcomes :
        LET obs1 == [obs0 EXCEPT !.perm = perm]
            p == check_permission(perm, PermissionName("update"), g.value[1].owner)
        IN IF p.kind # "Ok" THEN Reject(p, obs1)
           ELSE \E gtin \in {"valid", "invalid"} :
               LET obs2 == [obs1 EXCEPT !.gtin = gtin] IN
               IF gtin = "invalid" THEN Reject(InvalidTransaction("Invalid gtin"), obs2)
               ELSE SchemaThenSet(obs2, E, UpdatedOwner(g.value[1]),
                                  expected[obs0.id][1].owner)

update_mfg_batch(obs0, E) == UpdateFound(obs0, E, get_mfg_batch(ledger, obs0.id))

\* delete_mfg_batch, from the existence check on
DeleteFound(obs0, E, g) ==
    IF g.kind # "Ok" THEN Reject(g, obs0)
    ELSE IF g.value = None
    THEN Reject(InvalidTransactionOf("No mfg_batch exists", obs0.id), obs0)
    ELSE \E perm \in PermOutcomes :
        LET obs1 == [obs0 EXCEPT !.perm = perm]
            p == check_permission(perm, PermissionName("delete"), g.value[1].owner)
        IN IF p.kind # "Ok" THEN Reject(p, obs1)
           ELSE \E gtin \in {"valid", "invalid"} :
               LET obs2 == [obs1 EXCEPT !.gtin = gtin] IN
               IF gtin = "invalid" THEN Reject(InvalidTransaction("Invalid gtin"), obs2)
               ELSE \E codec_ok \in E.codec :
                   Commit(remove_mfg_batch(ledger, obs0.id, codec_ok), obs2, None)

delete_mfg_batch(obs0, E) == DeleteFound(obs0, E, get_mfg_batch(ledger, obs0.id))

\* MfgBatchPayload::from_bytes: the payload decodes unless its action or its
\* namespace is the unset enum value
MfgBatchPayload_from_bytes(mfg_batch_namespace) ==
    IF NamespaceCode(mfg_batch_namespace) = 0
    THEN InvalidTransaction("Cannot build manufacturig batch payload")
    ELSE Ok(Unit)

PayloadNamespaces == {"Gs1", "Unset"}

Timestamps == {0, 1}

\* validate_payload of a create payload, then create_mfg_batch
ValidatedCreate(obs0, E) ==
    \E owner \in TxOwners :
        LET obs1 == [obs0 EXCEPT !.owner = owner]
            v == validate_mfg_batch_create_action(obs0.id, owner)
        IN IF v.kind # "Ok" THEN Reject(v, obs1) ELSE create_mfg_batch(obs1, E)

\* apply: decode the payload, validate its timestamp, dispatch on its action
apply(obs, E) ==
    \E ns \in PayloadNamespaces :
        IF MfgBatchPayload_from_bytes(ns).kind # "Ok"
        THEN Reject(MfgBatchPayload_from_bytes(ns), obs)
        ELSE \E timestamp \in Timestamps :
            LET obs0 == [obs EXCEPT !.decoded = TRUE, !.timestamp = timestamp] IN
            IF validate_timestamp(timestamp).kind # "Ok"
            THEN Reject(validate_timestamp(timestamp), obs0)
            ELSE IF obs.op = "create" THEN ValidatedCreate(obs0, E)
            ELSE IF obs.op = "update" THEN update_mfg_batch(obs0, E)
            ELSE delete_mfg_batch(obs0, E)

\* a transaction whose payload is a create action
ApplyCreate(E) == \E id \in TxIds : apply(Unread("create", id), E)

\* a transaction whose payload is an update action
ApplyUpdate(E) == \E id \in TxIds : apply(Unread("update", id), E)

\* a transaction whose payload is a delete action
ApplyDelete(E) == \E id \in TxIds : apply(Unread("delete", id), E)

NextHandler == ApplyCreate(Healthy) \/ ApplyUpdate(Healthy) \/ ApplyDelete(Healthy)

SpecHandler == Init /\ [][NextHandler]_vars

\* the handler over ledgers whose entries may fail to decode and lists that may
\* fail to encode
NextHandlerFaulty == ApplyCreate(Faulty) \/ ApplyUpdate(Faulty) \/ ApplyDelete(Faulty)

InitHandlerFaulty == CorruptAt({compute_gs1_mfg_batch_address(id) : id \in TxIds})

SpecHandlerFaulty == InitHandlerFaulty /\ [][NextHandlerFaulty]_vars

(***************************************************************************)
(* The address codec applied to business keys: keys of '0' and '1', alone  *)
(* and behind a prefix of eight or ten digits, so that keys shorter than   *)
(* the padding width, as long as it and longer occur.                      *)
(***************************************************************************)
MaxKeyTail == 5

KeyTails == UNION {[1..n -> {48, 49}] : n \in 0..MaxKeyTail}

KeyPrefixes == {<<>>, <<49, 50, 51, 52, 53, 54, 55, 56>>,
                <<49, 50, 51, 52, 53, 54, 55, 56, 57, 48>>}

BusinessKeys == {p \o t : p \in KeyPrefixes, t \in KeyTails}

\* a call of compute_gs1_mfg_batch_address: the function returns a String
ComputeAddress ==
    \E gtin \in BusinessKeys :
        /\ result' = Ok(compute_gs1_mfg_batch_address(gtin))
        /\ last' = [op |-> "address", id |-> gtin]
        /\ UNCHANGED <<ledger, expected, db>>

NextCodec == ComputeAddress

SpecCodec == Init /\ [][NextCodec]_vars

(***************************************************************************)
(* The wire codec applied to the values the protocol builders return: a    *)
(* value is converted to bytes and back.                                    *)
(***************************************************************************)
\* MfgBatchPayload_Action: UNSET_ACTION = 0, then create, update, delete
ActionCode(kind) ==
    IF kind = "create" THEN 1 ELSE IF kind = "update" THEN 2
    ELSE IF kind = "delete" THEN 3 ELSE 0

EncProperties(properties) ==
    <<Len(properties)>>
        \o Concat([i \in 1..Len(properties) |-> EncProperty(properties[i])])

EncAction_NoOwner(action) ==
    <<NamespaceCode(action.mfg_batch_namespace)>> \o EncStr(action.mfg_batch_id)
        \o (IF action.kind = "create"
            THEN EncStr(<<>>) \o EncProperties(action.properties)
            ELSE IF action.kind = "update" THEN EncProperties(action.properties)
            ELSE <<>>)

\* FromNative of MfgBatchCreateAction, MfgBatchUpdateAction and MfgBatchDeleteAction
EncAction(action) ==
    <<NamespaceCode(action.mfg_batch_namespace)>> \o EncStr(action.mfg_batch_id)
        \o (IF action.kind = "create"
            THEN EncStr(action.owner) \o EncProperties(action.properties)
            ELSE IF action.kind = "update" THEN EncProperties(action.properties)
            ELSE <<>>)

\* IntoBytes for MfgBatchPayload: the action's code, the timestamp, the action
IntoBytes_MfgBatchPayload(payload) ==
    <<ActionCode(payload.action.kind), payload.timestamp>> \o EncAction(payload.action)

\* the properties of an action, which end the bytes
ParseActionProperties(bs, pos) ==
    IF pos > Len(bs) THEN Fail
    ELSE LET ps == ParseProperties(bs, pos + 1, bs[pos]) IN
         IF ~ps.ok THEN Fail
         ELSE IF ps.next # Len(bs) + 1 THEN Fail
         ELSE ps

\* the rest of a create action whose id is read: the owner and the properties
ParseCreate(bs, id, o) ==
    IF ~o.ok THEN Fail
    ELSE LET ps == ParseActionProperties(bs, o.next) IN
         IF ~ps.ok THEN Fail
         ELSE [ok |-> TRUE,
               val |-> [kind |-> "create", mfg_batch_namespace |-> "Gs1",
                        mfg_batch_id |-> id, owner |-> o.val, properties |-> ps.val]]

ParseUpdate(id, ps) ==
    IF ~ps.ok THEN Fail
    ELSE [ok |-> TRUE,
          val |-> [kind |-> "update", mfg_batch_namespace |-> "Gs1",
                   mfg_batch_id |-> id, properties |-> ps.val]]

\* FromProto of the three actions, from pos on: the namespace UNSET_TYPE does not convert
ParseAction(bs, pos, code) ==
    IF pos > Len(bs) THEN Fail
    ELSE IF bs[pos] # 1 THEN Fail
    ELSE LET id == ParseStr(bs, pos + 1) IN
         IF ~id.ok THEN Fail
         ELSE IF code = 1 THEN ParseCreate(bs, id.val, ParseStr(bs, id.next))
         ELSE IF code = 2 THEN ParseUpdate(id.val, ParseActionProperties(bs, id.next))
         ELSE IF id.next # Len(bs) + 1 THEN Fail
         ELSE [ok |-> TRUE,
               val |-> [kind |-> "delete", mfg_batch_namespace |-> "Gs1",
                        mfg_batch_id |-> id.val]]

WithTimestamp(action, timestamp) ==
    IF ~action.ok THEN Fail
    ELSE [ok |-> TRUE, val |-> [action |-> action.val, timestamp |-> timestamp]]

\* FromBytes<MfgBatchPayload>: the action UNSET_ACTION does not convert
FromBytes_MfgBatchPayload(bytes) ==
    IF Len(bytes) < 2 THEN Fail
    ELSE IF bytes[1] \notin {1, 2, 3} THEN Fail
    ELSE WithTimestamp(ParseAction(bytes, 3, bytes[1]), bytes[2])

\* Result<_, ProtoConversionError>
ProtoResult(r) ==
    IF r.ok THEN Ok(r.val)
    ELSE [kind |-> "ProtoConversionError", msg |-> "", arg |-> <<>>]

\* a struct of a struct of a number
Nested == StructValue(<<120>>, <<StructValue(<<121>>, <<Counter>>), Description>>)

WirePropLists == {<<>>, <<Description>>, <<Counter, Description>>, <<Nested>>,
                  <<Nested, Counter>>}

WireIds == {<<>>, <<49>>}

\* the values MfgBatchBuilder::build returns
WireBatches ==
    {MfgBatch(id, "Gs1", o, ps) : id \in WireIds, o \in {<<>>, <<65>>}, ps \in WirePropLists}

\* the actions their builders return; an update action has a property
WireActions ==
    {[kind |-> "create", mfg_batch_namespace |-> "Gs1", mfg_batch_id |-> b.mfg_batch_id,
      owner |-> b.owner, properties |-> b.properties] : b \in WireBatches}
    \cup {[kind |-> "update", mfg_batch_namespace |-> "Gs1", mfg_batch_id |-> id,
           properties |-> ps] : id \in WireIds, ps \in WirePropLists \ {<<>>}}
    \cup {[kind |-> "delete", mfg_batch_namespace |-> "Gs1", mfg_batch_id |-> id] :
             id \in WireIds}

\* MfgBatch::from_bytes(mfg_batch.into_bytes())
RoundTripMfgBatch ==
    \E mfg_batch \in WireBatches :
        /\ result' = ProtoResult(ParseMfgBatch(EncMfgBatch(mfg_batch)))
        /\ last' = [op |-> "mfg_batch", x |-> mfg_batch]
        /\ UNCHANGED <<ledger, expected, db>>

\* the values MfgBatchListBuilder::build returns: a list is not empty
WireLists ==
    {<<b>> : b \in WireBatches}
        \cup {<<b, c>> : b \in WireBatches, c \in {d \in WireBatches : d.owner # <<>>}}

\* MfgBatchList::from_bytes(list.into_bytes())
RoundTripMfgBatchList ==
    \E mfg_batches \in WireLists :
        /\ result' = ProtoResult(MfgBatchList_from_bytes(
                                     MfgBatchList_into_bytes(mfg_batches)))
        /\ last' = [op |-> "mfg_batch_list", x |-> mfg_batches]
        /\ UNCHANGED <<ledger, expected, db>>

\* the action's from_bytes(action.into_bytes())
RoundTripAction ==
    \E action \in WireActions :
        /\ result' = ProtoResult(ParseAction(EncAction(action), 1,
                                             ActionCode(action.kind)))
        /\ last' = [op |-> "action", x |-> action]
        /\ UNCHANGED <<ledger, expected, db>>

\* MfgBatchPayload::from_bytes(payload.into_bytes())
RoundTripPayload ==
    \E action \in WireActions : \E timestamp \in Timestamps :
        /\ result' = ProtoResult(FromBytes_MfgBatchPayload(IntoBytes_MfgBatchPayload(
                                     [action |-> action, timestamp |-> timestamp])))
        /\ last' = [op |-> "payload", x |-> [action |-> action, timestamp |-> timestamp]]
        /\ UNCHANGED <<ledger, expected, db>>

NextWire ==
    \/ RoundTripMfgBatch
    \/ RoundTripMfgBatchList
    \/ RoundTripAction
    \/ RoundTripPayload

SpecWire == Init /\ [][NextWire]_vars

(***************************************************************************)
(* The bitemporal projection store (DieselMfgBatchStore).  A table is the  *)
(* sequence of its rows in the order of their serial id; a row is valid    *)
(* for the commit numbers of [start_commit_num, end_commit_num).           *)
(***************************************************************************)
\* i64::MAX.  Commit numbers are compared and copied, never computed with, so the
\* sentinel is modelled by the greatest integer of the model checker.
MAX_COMMIT_NUM == 2147483647

\* the commit heights of the calls: a call is at the height of the call before it or
\* at the next one
CommitNums == {1, 2}

\* rows the entity table holds at most: add is not taken beyond
MaxRows == 2

StoreIds == {<<49>>, <<50>>}

\* Option<String>: no service (a Sawtooth network) or the service "s" (a Splinter circuit)
ServiceIds == {None, Some(<<115>>)}

\* MfgBatchBuilderError::MissingRequiredField
MissingRequiredField(msg) == [kind |-> "MissingRequiredField", msg |-> msg, arg |-> <<>>]

\* PropertyValueBuilder::build of the store's PropertyValue: the id, the address, the
\* name and the data type must not be empty and the interval must not be empty
StorePropertyValueBuilder_build(id, address, name, data_type, struct_values, start, end, service_id) ==
    IF id = <<>> THEN MissingRequiredField("Missing mfg_batch_id")
    ELSE IF address = <<>> THEN MissingRequiredField("Missing mfg_batch_address")
    ELSE IF name = <<>> THEN MissingRequiredField("Missing mfg_batch_name")
    ELSE IF data_type = "" THEN MissingRequiredField("Missing data_type")
    ELSE IF start >= end
    THEN MissingRequiredField("start_commit_number must be less than end_commit_num")
    ELSE Ok([mfg_batch_id |-> id, mfg_batch_address |-> address,
             property_name |-> name, data_type |-> data_type,
             struct_values |-> struct_values,
             start_commit_num |-> start, end_commit_num |-> end,
             service_id |-> service_id])

\* store::PropertyValue, as its builder makes it for a property of the id that is
\* current from start on
StorePropertyValue(id, name, data_type, struct_values, start, service_id) ==
    StorePropertyValueBuilder_build(id, compute_gs1_mfg_batch_address(id), name, data_type,
                                    struct_values, start, MAX_COMMIT_NUM, service_id).value

\* the property trees of an entity: none, or a struct ("x") of one leaf ("c")
StorePropLists(id, start, service_id) ==
    {<<>>,
     <<StorePropertyValue(id, <<120>>, "Struct",
           <<StorePropertyValue(id, <<99>>, "Number", <<>>, start, service_id)>>,
           start, service_id)>>}

StoreMfgBatchBuilder_build_NoInterval(id, address, namespace, owner, start, end, service_id, properties) ==
    IF id = <<>> \/ address = <<>> \/ namespace = "" \/ owner = <<>>
    THEN MissingRequiredField("Missing field")
    ELSE Ok([mfg_batch_id |-> id, mfg_batch_address |-> address,
             mfg_batch_namespace |-> namespace, owner |-> owner,
             start_commit_num |-> start, end_commit_num |-> end,
             service_id |-> service_id, properties |-> properties])

\* MfgBatchBuilder::build of the store's MfgBatch: the id, the address, the namespace
\* and the owner must not be empty and the interval must not be empty
StoreMfgBatchBuilder_build(id, address, namespace, owner, start, end, service_id, properties) ==
    IF id = <<>> THEN MissingRequiredField("Missing mfg_batch_id")
    ELSE IF address = <<>> THEN MissingRequiredField("Missing mfg_batch_address")
    ELSE IF namespace = "" THEN MissingRequiredField("Missing mfg_batch_namespace")
    ELSE IF owner = <<>> THEN MissingRequiredField("Missing owner")
    ELSE IF start >= end
    THEN MissingRequiredField("start_commit_number must be less than end_commit_num")
    ELSE Ok([mfg_batch_id |-> id, mfg_batch_address |-> address,
             mfg_batch_namespace |-> namespace, owner |-> owner,
             start_commit_num |-> start, end_commit_num |-> end,
             service_id |-> service_id, properties |-> properties])

\* the end_commit_num a caller may ask for with start: an empty interval, a closed
\* one and the open one
EndsOf(start) == {start, start + 1, MAX_COMMIT_NUM}

\* the entities add_mfg_batch is called with: those the builder returned
StoreEntities ==
    {b.value : b \in {r \in UNION {{StoreMfgBatchBuilder_build(k[1],
                                            compute_gs1_mfg_batch_address(k[1]), "GS1",
                                            <<65>>, k[2], end, k[3], ps) :
                                        end \in EndsOf(k[2]),
                                        ps \in StorePropLists(k[1], k[2], k[3])} :
                                    k \in StoreIds \X CommitNums \X ServiceIds} :
                          r.kind = "Ok"}}

\* From<GridMfgBatch> for NewMfgBatch: the row of the entity
NewMfgBatch(mfg_batch) ==
    [mfg_batch_id |-> mfg_batch.mfg_batch_id,
     mfg_batch_address |-> mfg_batch.mfg_batch_address,
     mfg_batch_namespace |-> mfg_batch.mfg_batch_namespace,
     owner |-> mfg_batch.owner,
     start_commit_num |-> mfg_batch.start_commit_num,
     end_commit_num |-> mfg_batch.end_commit_num,
     service_id |-> mfg_batch.service_id]

\* format!("{}:{}", mfg_batch_id, property_name)
ParentLink(property) == property.mfg_batch_id \o <<58>> \o property.property_name

\* the row of one property value
NewMfgBatchPropertyValue(parent_property, property) ==
    [mfg_batch_id |-> property.mfg_batch_id,
     mfg_batch_address |-> property.mfg_batch_address,
     property_name |-> property.property_name,
     parent_property |-> parent_property,
     data_type |-> property.data_type,
     start_commit_num |-> property.start_commit_num,
     end_commit_num |-> MAX_COMMIT_NUM,
     service_id |-> property.service_id]

\* a property's row, then the rows of its struct_values, then those of the next property
RECURSIVE make_property_values(_, _)
make_property_values(parent_property, properties) ==
    IF properties = <<>> THEN <<>>
    ELSE <<NewMfgBatchPropertyValue(parent_property, Head(properties))>>
         \o (IF Head(properties).struct_values # <<>>
             THEN make_property_values(Some(ParentLink(Head(properties))),
                                       Head(properties).struct_values)
             ELSE <<>>)
         \o make_property_values(parent_property, Tail(properties))

\* the rows are closed one commit number late
SetEnd_Later(table, matches, current_commit_num) ==
    [i \in 1..Len(table) |->
        IF i \in matches THEN [table[i] EXCEPT !.end_commit_num = current_commit_num + 1]
        ELSE table[i]]

\* UPDATE ... SET end_commit_num = current_commit_num on the rows that match
SetEnd(table, matches, current_commit_num) ==
    [i \in 1..Len(table) |->
        IF i \in matches THEN [table[i] EXCEPT !.end_commit_num = current_commit_num]
        ELSE table[i]]

\* the open rows of the id, of the service if one is given
OpenOf(table, mfg_batch_id, service_id) ==
    {i \in 1..Len(table) :
        /\ table[i].mfg_batch_id = mfg_batch_id
        /\ table[i].end_commit_num = MAX_COMMIT_NUM
        /\ service_id # None => table[i].service_id = service_id}

OpenAt_AnyEnd(table, address) ==
    {i \in 1..Len(table) : table[i].mfg_batch_address = address}

\* the open rows at the address
OpenAt(table, address) ==
    {i \in 1..Len(table) :
        /\ table[i].mfg_batch_address = address
        /\ table[i].end_commit_num = MAX_COMMIT_NUM}

update_prod_end_commit_num_NoClose(table, mfg_batch_id, service_id, current_commit_num) ==
    table

update_prod_end_commit_num(table, mfg_batch_id, service_id, current_commit_num) ==
    SetEnd(table, OpenOf(table, mfg_batch_id, service_id), current_commit_num)

update_prod_property_values(table, mfg_batch_id, service_id, current_commit_num) ==
    SetEnd(table, OpenOf(table, mfg_batch_id, service_id), current_commit_num)

update_mfg_batch_property_values_AnyId(table, mfg_batch_id, service_id, current_commit_num) ==
    SetEnd(table, {i \in 1..Len(table) : table[i].end_commit_num = MAX_COMMIT_NUM},
           current_commit_num)

update_mfg_batch_property_values(table, mfg_batch_id, service_id, current_commit_num) ==
    SetEnd(table, OpenOf(table, mfg_batch_id, service_id), current_commit_num)

sqlite_delete_mfg_batch_NoClose(table, address, current_commit_num) == table

sqlite_delete_mfg_batch(table, address, current_commit_num) ==
    SetEnd(table, OpenAt(table, address), current_commit_num)

delete_mfg_batch_property_values(table, address, current_commit_num) ==
    SetEnd(table, OpenAt(table, address), current_commit_num)

\* the failure a call meets: none, no connection from the pool, or an error of the
\* database at the statements on the entity table or on the property table
NoFault == [stage |-> "none", err |-> "none"]

Faults ==
    {NoFault, [stage |-> "pool", err |-> "PoolError"],
     [stage |-> "entity", err |-> "Other"],
     [stage |-> "property", err |-> "UniqueViolation"],
     [stage |-> "property", err |-> "ForeignKeyViolation"]}

\* From<diesel::result::Error> and From<PoolError> for MfgBatchStoreError
MfgBatchStoreError_from(err) ==
    IF err = "UniqueViolation"
    THEN [kind |-> "ConstraintViolationError", msg |-> "Unique", arg |-> <<>>]
    ELSE IF err = "ForeignKeyViolation"
    THEN [kind |-> "ConstraintViolationError", msg |-> "ForeignKey", arg |-> <<>>]
    ELSE IF err = "PoolError"
    THEN [kind |-> "ResourceTemporarilyUnavailableError", msg |-> "", arg |-> <<>>]
    ELSE [kind |-> "InternalError", msg |-> "", arg |-> <<>>]

\* the statements of a stage, which left the database d: they fail if the fault is theirs
Statement(d, fault, stage) ==
    IF fault.stage = stage THEN [res |-> MfgBatchStoreError_from(fault.err), db |-> d]
    ELSE [res |-> Ok(Unit), db |-> d]

\* conn.transaction: the closure's writes are kept if it returns Ok, undone otherwise
transaction_NoRollback(d, r) == r

transaction(d, r) == IF r.res.kind = "Ok" THEN r ELSE [res |-> r.res, db |-> d]

\* sqlite::insert_mfg_batch: close the open rows of the key, insert the row
insert_mfg_batch(d, mfg_batch, fault) ==
    Statement([d EXCEPT !.mfg_batch =
                  IF fault.stage = "entity"
                  THEN update_prod_end_commit_num(@, mfg_batch.mfg_batch_id,
                           mfg_batch.service_id, mfg_batch.start_commit_num)
                  ELSE Append(update_prod_end_commit_num(@, mfg_batch.mfg_batch_id,
                                  mfg_batch.service_id, mfg_batch.start_commit_num),
                              mfg_batch)],
              fault, "entity")

\* the loop of insert_mfg_batch_property_values: one closing UPDATE per value
RECURSIVE CloseForEach(_, _)
CloseForEach(table, property_values) ==
    IF property_values = <<>> THEN table
    ELSE CloseForEach(update_prod_property_values(table, Head(property_values).mfg_batch_id,
                          Head(property_values).service_id,
                          Head(property_values).start_commit_num),
                      Tail(property_values))

\* sqlite::insert_mfg_batch_property_values, reached if insert_mfg_batch returned Ok
insert_mfg_batch_property_values(r, property_values, fault) ==
    IF r.res.kind # "Ok" THEN r
    ELSE Statement([r.db EXCEPT !.mfg_batch_property_value =
                       IF fault.stage = "property" THEN CloseForEach(@, property_values)
                       ELSE CloseForEach(@, property_values) \o property_values],
                   fault, "property")

\* MfgBatchStore::add_mfg_batch
store_add_mfg_batch(d, mfg_batch, fault) ==
    IF fault.stage = "pool" THEN Statement(d, fault, "pool")
    ELSE transaction(d, insert_mfg_batch_property_values(
                            insert_mfg_batch(d, NewMfgBatch(mfg_batch), fault),
                            make_property_values(None, mfg_batch.properties), fault))

\* MfgBatchStore::update_mfg_batch: the open property rows of the key are closed
store_update_mfg_batch(d, mfg_batch_id, service_id, current_commit_num, fault) ==
    IF fault.stage = "pool" THEN Statement(d, fault, "pool")
    ELSE transaction(d,
             Statement([d EXCEPT !.mfg_batch_property_value =
                           IF fault.stage = "property" THEN @
                           ELSE update_mfg_batch_property_values(@, mfg_batch_id,
                                    service_id, current_commit_num)],
                       fault, "property"))

\* the second statement of delete_mfg_batch, reached if the first returned Ok
DeletePropertyValues(r, address, current_commit_num, fault) ==
    IF r.res.kind # "Ok" THEN r
    ELSE Statement([r.db EXCEPT !.mfg_batch_property_value =
                       IF fault.stage = "property" THEN @
                       ELSE delete_mfg_batch_property_values(@, address,
                                current_commit_num)],
                   fault, "property")

\* MfgBatchStore::delete_mfg_batch: the open rows at the address are closed
store_delete_mfg_batch(d, address, current_commit_num, fault) ==
    IF fault.stage = "pool" THEN Statement(d, fault, "pool")
    ELSE transaction(d, DeletePropertyValues(
                            Statement([d EXCEPT !.mfg_batch =
                                          IF fault.stage = "entity" THEN @
                                          ELSE sqlite_delete_mfg_batch(@, address,
                                                   current_commit_num)],
                                      fault, "entity"),
                            address, current_commit_num, fault))

\* a call of the store that returned r
StoreCommit(r, obs) ==
    /\ db' = r.db
    /\ result' = r.res
    /\ last' = obs
    /\ UNCHANGED <<ledger, expected>>

\* The commit number of a call is "the current commit height" (the trait's words for
\* current_commit_num), and a height does not go down: last.commit is the height of
\* the call before.  Several calls may carry the height of one commit.  Of an add,
\* last.closed is the number of open entity rows of its key it found; of an update
\* and of a delete, last.id (and last.service_id) is the key it was called with.
StoreAdd(ids, F) ==
    \E mfg_batch \in {e \in StoreEntities : e.mfg_batch_id \in ids} : \E fault \in F :
        /\ Len(db.mfg_batch) < MaxRows
        /\ mfg_batch.start_commit_num >= last.commit
        /\ StoreCommit(store_add_mfg_batch(db, mfg_batch, fault),
                       [op |-> "add", commit |-> mfg_batch.start_commit_num,
                        closed |-> Cardinality(OpenOf(db.mfg_batch, mfg_batch.mfg_batch_id,
                                                      mfg_batch.service_id))])

\* update has no statement on the entity table
StoreUpdate(ids, F) ==
    \E mfg_batch_id \in ids : \E service_id \in ServiceIds :
    \E current_commit_num \in CommitNums : \E fault \in {f \in F : f.stage # "entity"} :
        /\ current_commit_num >= last.commit
        /\ StoreCommit(store_update_mfg_batch(db, mfg_batch_id, service_id,
                                              current_commit_num, fault),
                       [op |-> "update", commit |-> current_commit_num,
                        id |-> mfg_batch_id, service_id |-> service_id])

StoreDelete(ids, F) ==
    \E mfg_batch_id \in ids : \E current_commit_num \in CommitNums : \E fault \in F :
        /\ current_commit_num >= last.commit
        /\ StoreCommit(store_delete_mfg_batch(db,
                           compute_gs1_mfg_batch_address(mfg_batch_id),
                           current_commit_num, fault),
                       [op |-> "delete", commit |-> current_commit_num,
                        id |-> mfg_batch_id])

\* the store before its first call, at the first commit height
InitStore ==
    /\ ledger = EmptyLedger
    /\ result = Ok(Unit)
    /\ last = [op |-> "init", commit |-> 1]
    /\ expected = [id \in Ids |-> None]
    /\ db = EmptyDb

\* the store on a database that answers every statement
NextStore ==
    \/ StoreAdd(StoreIds, {NoFault})
    \/ StoreUpdate(StoreIds, {NoFault})
    \/ StoreDelete(StoreIds, {NoFault})

SpecStore == InitStore /\ [][NextStore]_vars

\* the store of one batch on a database and a pool that may fail
FaultyStoreIds == {<<49>>}

NextStoreFaulty ==
    \/ StoreAdd(FaultyStoreIds, Faults)
    \/ StoreUpdate(FaultyStoreIds, Faults)
    \/ StoreDelete(FaultyStoreIds, Faults)

SpecStoreFaulty == InitStore /\ [][NextStoreFaulty]_vars

(***************************************************************************)
(* The queries of the projection store: get_mfg_batch and list_mfg_batches *)
(* read the current version of the entities and resolve their property     *)
(* trees from the property table.  A row is named by its position in the   *)
(* table, which is its serial id.                                          *)
(***************************************************************************)
\* column.eq(value) on a nullable column: in SQL a NULL is equal to nothing, a NULL
\* included
SqlEq_NullMatches(a, b) == a = b

SqlEq(a, b) == a # None /\ b # None /\ a = b

\* the positions of S in ascending order: the rows a SELECT loads
InOrder(S) ==
    [k \in 1..Cardinality(S) |-> CHOOSE i \in S : Cardinality({j \in S : j < i}) = k - 1]

\* sqlite::get_mfg_batch: the first open row of the id whose service_id is the one
\* given, or is null if none is given
sqlite_get_mfg_batch_AnyService(table, mfg_batch_id, service_id) ==
    InOrder({i \in 1..Len(table) :
                /\ table[i].mfg_batch_id = mfg_batch_id
                /\ table[i].end_commit_num = MAX_COMMIT_NUM})

sqlite_get_mfg_batch(table, mfg_batch_id, service_id) ==
    InOrder({i \in 1..Len(table) :
                /\ table[i].mfg_batch_id = mfg_batch_id
                /\ table[i].end_commit_num = MAX_COMMIT_NUM
                /\ table[i].service_id = service_id})

\* sqlite::get_root_values: the open property rows of the id that have no parent
get_root_values(table, mfg_batch_id) ==
    InOrder({i \in 1..Len(table) :
                /\ table[i].mfg_batch_id = mfg_batch_id
                /\ table[i].parent_property = None
                /\ table[i].end_commit_num = MAX_COMMIT_NUM})

\* the rows get_property_values loads as the children of a row: those whose
\* parent_property equals the parent_property of the row
Children(table, i) ==
    InOrder({j \in 1..Len(table) :
                SqlEq(table[j].parent_property, table[i].parent_property)})

\* From<MfgBatchPropertyValue> and From<(MfgBatchPropertyValue, Vec<PropertyValue>)>
PropertyValue_from(model, children) ==
    [mfg_batch_id |-> model.mfg_batch_id,
     mfg_batch_address |-> model.mfg_batch_address,
     property_name |-> model.property_name, data_type |-> model.data_type,
     struct_values |-> children,
     start_commit_num |-> model.start_commit_num,
     end_commit_num |-> model.end_commit_num,
     service_id |-> model.service_id]

\* From<(MfgBatch, Vec<PropertyValue>)> for the store's MfgBatch; last_updated is a
\* column no statement of the store writes and is left out
GridMfgBatch_from(model, properties) ==
    [mfg_batch_id |-> model.mfg_batch_id,
     mfg_batch_address |-> model.mfg_batch_address,
     mfg_batch_namespace |-> model.mfg_batch_namespace, owner |-> model.owner,
     start_commit_num |-> model.start_commit_num,
     end_commit_num |-> model.end_commit_num,
     service_id |-> model.service_id, properties |-> properties]

\* a recursion that comes back to a row it is resolving never returns
Diverges == [kind |-> "Diverges", msg |-> "", arg |-> <<>>]

\* definitions.push(value), then the rest of the loop
PushValue(value, rest) ==
    IF rest.kind # "Ok" THEN rest ELSE Ok(<<value>> \o rest.value)

PushStruct(model, children, rest) ==
    IF children.kind # "Ok" THEN children
    ELSE PushValue(PropertyValue_from(model, children.value), rest)

\* sqlite::get_property_values; path holds the rows whose children are being resolved
RECURSIVE get_property_values(_, _, _)
get_property_values(table, root_values, path) ==
    IF root_values = <<>> THEN Ok(<<>>)
    ELSE IF Head(root_values) \in path THEN Diverges
    ELSE IF Children(table, Head(root_values)) = <<>>
    THEN PushValue(PropertyValue_from(table[Head(root_values)], <<>>),
                   get_property_values(table, Tail(root_values), path))
    ELSE PushStruct(table[Head(root_values)],
                    get_property_values(table, Children(table, Head(root_values)),
                                        path \cup {Head(root_values)}),
                    get_property_values(table, Tail(root_values), path))

\* MfgBatch::from((mfg_batch, values)), if the values were resolved
WithValues(model, values) ==
    IF values.kind # "Ok" THEN values ELSE Ok(GridMfgBatch_from(model, values.value))

\* the entity of an entity row: get_root_values, get_property_values, MfgBatch::from
Resolved(d, model) ==
    WithValues(model,
               get_property_values(d.mfg_batch_property_value,
                   get_root_values(d.mfg_batch_property_value, model.mfg_batch_id), {}))

SomeOf(r) == IF r.kind # "Ok" THEN r ELSE Ok(Some(r.value))

\* Ok(None) if no row was found, the entity of the first row otherwise
GetFirst(d, found) ==
    IF found = <<>> THEN Ok(None) ELSE SomeOf(Resolved(d, d.mfg_batch[Head(found)]))

\* MfgBatchStore::get_mfg_batch
store_get_mfg_batch(d, mfg_batch_id, service_id, fault) ==
    IF fault.stage = "pool" THEN Statement(d, fault, "pool")
    ELSE [res |-> GetFirst(d, sqlite_get_mfg_batch(d.mfg_batch, mfg_batch_id, service_id)),
          db |-> d]

\* LIMIT limit OFFSET offset of the rows that match
Page(matches, offset, limit) ==
    SubSeq(matches, offset + 1,
           IF offset + limit < Len(matches) THEN offset + limit ELSE Len(matches))

\* sqlite::list_mfg_batches: a page of the open rows of the service
sqlite_list_mfg_batches(table, service_id, offset, limit) ==
    Page(InOrder({i \in 1..Len(table) :
                     /\ table[i].end_commit_num = MAX_COMMIT_NUM
                     /\ table[i].service_id = service_id}),
         offset, limit)

PushBatch(mfg_batch, rest) ==
    IF mfg_batch.kind # "Ok" THEN mfg_batch ELSE PushValue(mfg_batch.value, rest)

\* the loop of list_mfg_batches over the rows of the page
RECURSIVE ResolveAll(_, _)
ResolveAll(d, db_mfg_batches) ==
    IF db_mfg_batches = <<>> THEN Ok(<<>>)
    ELSE PushBatch(Resolved(d, d.mfg_batch[Head(db_mfg_batches)]),
                   ResolveAll(d, Tail(db_mfg_batches)))

\* MfgBatchList::new(mfg_batches, Paging::new(offset, limit, total))
MfgBatchList_new(mfg_batches, offset, limit, total) ==
    IF mfg_batches.kind # "Ok" THEN mfg_batches
    ELSE Ok([data |-> mfg_batches.value,
             paging |-> [offset |-> offset, limit |-> limit, total |-> total]])

\* total is db_mfg_batches.len()
ListPage(d, db_mfg_batches, offset, limit) ==
    MfgBatchList_new(ResolveAll(d, db_mfg_batches), offset, limit, Len(db_mfg_batches))

\* MfgBatchStore::list_mfg_batches
store_list_mfg_batches(d, service_id, offset, limit, fault) ==
    IF fault.stage = "pool" THEN Statement(d, fault, "pool")
    ELSE [res |-> ListPage(d, sqlite_list_mfg_batches(d.mfg_batch, service_id, offset,
                                                      limit),
                           offset, limit),
          db |-> d]

\* the failures of a query: none, or no connection from the pool
QueryFaults == {f \in Faults : f.stage \in {"none", "pool"}}

\* the pages a caller asks for
Offsets == {0, 1}

Limits == {1, 2}

\* a query is at the commit height of the call before it
StoreGet(ids, F) ==
    \E mfg_batch_id \in ids : \E service_id \in ServiceIds : \E fault \in F :
        StoreCommit(store_get_mfg_batch(db, mfg_batch_id, service_id, fault),
                    [op |-> "get", commit |-> last.commit, id |-> mfg_batch_id,
                     service_id |-> service_id])

StoreList(limits, F) ==
    \E service_id \in ServiceIds : \E offset \in Offsets : \E limit \in limits :
    \E fault \in F :
        StoreCommit(store_list_mfg_batches(db, service_id, offset, limit, fault),
                    [op |-> "list", commit |-> last.commit, service_id |-> service_id,
                     offset |-> offset, limit |-> limit])

\* the store of one batch and its queries; the pool may fail a get
NextStoreQuery ==
    \/ StoreAdd(FaultyStoreIds, {NoFault})
    \/ StoreUpdate(FaultyStoreIds, {NoFault})
    \/ StoreDelete(FaultyStoreIds, {NoFault})
    \/ StoreGet(FaultyStoreIds, QueryFaults)
    \/ StoreList({1}, {NoFault})

SpecStoreQuery == InitStore /\ [][NextStoreQuery]_vars

\* the store of two batches and the pages of its list
NextStoreList ==
    \/ StoreAdd(StoreIds, {NoFault})
    \/ StoreUpdate(StoreIds, {NoFault})
    \/ StoreDelete(StoreIds, {NoFault})
    \/ StoreList(Limits, {NoFault})

SpecStoreList == InitStore /\ [][NextStoreList]_vars

(***************************************************************************)
(* The store of one batch with the record of a replacement: expected holds *)
(* the entity of the add before (added), and how far a replacement has     *)
(* come: 1 after add(orig), 2 after the update of its key at a later       *)
(* commit number, 3 after the add of an entity of the key at that number.  *)
(***************************************************************************)
\* rows the entity table holds at most while a replacement is followed: a version of
\* another service, the original and the replacement
MaxTrackedRows == 3

NoTrack == [phase |-> 0, orig |-> None, added |-> None]

AfterAdd(track, mfg_batch, commit) ==
    IF track.phase = 2 /\ mfg_batch.start_commit_num = commit
       /\ mfg_batch.mfg_batch_id = track.orig[1].mfg_batch_id
       /\ mfg_batch.service_id = track.orig[1].service_id
    THEN [phase |-> 3, orig |-> track.orig, added |-> Some(mfg_batch)]
    ELSE [phase |-> 1, orig |-> Some(mfg_batch), added |-> Some(mfg_batch)]

AfterUpdate(track, mfg_batch_id, service_id, current_commit_num) ==
    IF track.phase = 1 /\ track.orig[1].mfg_batch_id = mfg_batch_id
       /\ track.orig[1].service_id = service_id
       /\ track.orig[1].start_commit_num < current_commit_num
    THEN [phase |-> 2, orig |-> track.orig, added |-> None]
    ELSE NoTrack

TrackCommit(r, obs, track) ==
    /\ db' = r.db
    /\ result' = r.res
    /\ last' = obs
    /\ expected' = track
    /\ UNCHANGED ledger

TrackAdd ==
    \E mfg_batch \in {e \in StoreEntities : e.mfg_batch_id \in FaultyStoreIds} :
        /\ Len(db.mfg_batch) < MaxTrackedRows
        /\ mfg_batch.start_commit_num >= last.commit
        /\ TrackCommit(store_add_mfg_batch(db, mfg_batch, NoFault),
                       [op |-> "add", commit |-> mfg_batch.start_commit_num],
                       AfterAdd(expected, mfg_batch, last.commit))

TrackUpdate ==
    \E mfg_batch_id \in FaultyStoreIds : \E service_id \in ServiceIds :
    \E current_commit_num \in CommitNums :
        /\ current_commit_num >= last.commit
        /\ TrackCommit(store_update_mfg_batch(db, mfg_batch_id, service_id,
                                              current_commit_num, NoFault),
                       [op |-> "update", commit |-> current_commit_num],
                       AfterUpdate(expected, mfg_batch_id, service_id,
                                   current_commit_num))

TrackDelete ==
    \E mfg_batch_id \in FaultyStoreIds : \E current_commit_num \in CommitNums :
        /\ current_commit_num >= last.commit
        /\ TrackCommit(store_delete_mfg_batch(db,
                           compute_gs1_mfg_batch_address(mfg_batch_id),
                           current_commit_num, NoFault),
                       [op |-> "delete", commit |-> current_commit_num], NoTrack)

TrackGet ==
    \E mfg_batch_id \in FaultyStoreIds : \E service_id \in ServiceIds :
        TrackCommit(store_get_mfg_batch(db, mfg_batch_id, service_id, NoFault),
                    [op |-> "get", commit |-> last.commit, id |-> mfg_batch_id,
                     service_id |-> service_id],
                    expected)

InitTrack ==
    /\ ledger = EmptyLedger
    /\ result = Ok(Unit)
    /\ last = [op |-> "init", commit |-> 1]
    /\ expected = NoTrack
    /\ db = EmptyDb

NextTrack == TrackAdd \/ TrackUpdate \/ TrackDelete \/ TrackGet

SpecStoreTrack == InitTrack /\ [][NextTrack]_vars

(***************************************************************************)
(* The builders of the store on their own: every field is set or left at   *)
(* its default (the empty string, the number 0).                           *)
(***************************************************************************)
BuilderIds == {<<>>, <<49>>}

BuilderAddresses == {<<>>, compute_gs1_mfg_batch_address(<<49>>)}

BuilderNamespaces == {"", "GS1"}

BuilderOwners == {<<>>, <<65>>}

BuilderNames == {<<>>, <<120>>}

BuilderDataTypes == {"", "Number"}

BuilderStarts == {0, 1, 2}

BuilderEnds == {0, 1, 2, MAX_COMMIT_NUM}

\* a call of a builder reads and writes nothing but its fields
BuildMfgBatch ==
    \E id \in BuilderIds : \E address \in BuilderAddresses :
    \E namespace \in BuilderNamespaces : \E owner \in BuilderOwners :
    \E start \in BuilderStarts : \E end \in BuilderEnds :
        /\ result' = StoreMfgBatchBuilder_build(id, address, namespace, owner, start, end,
                                                None, <<>>)
        /\ last' = [op |-> "build_mfg_batch", id |-> id, address |-> address,
                    namespace |-> namespace, owner |-> owner,
                    start_commit_num |-> start, end_commit_num |-> end]
        /\ UNCHANGED <<ledger, expected, db>>

BuildPropertyValue ==
    \E id \in BuilderIds : \E address \in BuilderAddresses :
    \E name \in BuilderNames : \E data_type \in BuilderDataTypes :
    \E start \in BuilderStarts : \E end \in BuilderEnds :
        /\ result' = StorePropertyValueBuilder_build(id, address, name, data_type, <<>>,
                                                     start, end, None)
        /\ last' = [op |-> "build_property_value", id |-> id, address |-> address,
                    name |-> name, data_type |-> data_type,
                    start_commit_num |-> start, end_commit_num |-> end]
        /\ UNCHANGED <<ledger, expected, db>>

NextBuilder == BuildMfgBatch \/ BuildPropertyValue

SpecBuilder == InitStore /\ [][NextBuilder]_vars

(***************************************************************************)
(* The store of one batch, called with entities whose property trees are   *)
(* built value by value: a PropertyValue carries its own start_commit_num, *)
(* which its builder checks against its own end_commit_num only.           *)
(***************************************************************************)
\* the trees of an entity that starts at start: a leaf, a struct of a leaf and a
\* struct of a struct of a leaf, the innermost leaf built with the number inner
TreePropLists(id, start, inner, service_id) ==
    {<<StorePropertyValue(id, <<99>>, "Number", <<>>, inner, service_id)>>,
     <<StorePropertyValue(id, <<120>>, "Struct",
           <<StorePropertyValue(id, <<99>>, "Number", <<>>, inner, service_id)>>,
           start, service_id),
       StorePropertyValue(id, <<100>>, "Number", <<>>, start, service_id)>>,
     <<StorePropertyValue(id, <<120>>, "Struct",
           <<StorePropertyValue(id, <<121>>, "Struct",
                 <<StorePropertyValue(id, <<99>>, "Number", <<>>, inner, service_id)>>,
                 start, service_id)>>,
           start, service_id)>>}

TreeEntities ==
    UNION {{StoreMfgBatchBuilder_build(k[1], compute_gs1_mfg_batch_address(k[1]), "GS1",
                                       <<65>>, k[2], MAX_COMMIT_NUM, k[4], ps).value :
               ps \in TreePropLists(k[1], k[2], k[3], k[4])} :
           k \in FaultyStoreIds \X CommitNums \X CommitNums \X ServiceIds}

\* add_mfg_batch of such an entity; last.e is the entity
TreeAdd ==
    \E mfg_batch \in TreeEntities :
        /\ Len(db.mfg_batch) < MaxRows
        /\ mfg_batch.start_commit_num >= last.commit
        /\ db' = store_add_mfg_batch(db, mfg_batch, NoFault).db
        /\ result' = store_add_mfg_batch(db, mfg_batch, NoFault).res
        /\ last' = [op |-> "add", commit |-> mfg_batch.start_commit_num, e |-> mfg_batch,
                    rows |-> Len(db.mfg_batch_property_value)]
        /\ UNCHANGED <<ledger, expected>>

NextStoreTree ==
    \/ TreeAdd
    \/ StoreUpdate(FaultyStoreIds, {NoFault})
    \/ StoreDelete(FaultyStoreIds, {NoFault})

SpecStoreTree == InitStore /\ [][NextStoreTree]_vars

(***************************************************************************)
(* The store called in commit order: every call is at a higher commit      *)
(* number than the call before it, but for the add that follows an update  *)
(* of its key at the update's number; every entity is added open-ended     *)
(***************************************************************************)
\* the highest commit number of a call
MaxOrderedCommit == 4

OrderedEntities ==
    UNION {{StoreMfgBatchBuilder_build(k[1], compute_gs1_mfg_batch_address(k[1]), "GS1",
                                       <<65>>, k[2], MAX_COMMIT_NUM, k[3], ps).value :
               ps \in StorePropLists(k[1], k[2], k[3])} :
           k \in StoreIds \X (1..MaxOrderedCommit) \X ServiceIds}

\* the call before was at a lower commit number
After(current_commit_num) == last.op = "init" \/ current_commit_num > last.commit

\* the call before was the update this add replaces the properties of
Paired(mfg_batch) ==
    /\ last.op = "update"
    /\ last.id = mfg_batch.mfg_batch_id
    /\ last.service_id = mfg_batch.service_id
    /\ last.commit = mfg_batch.start_commit_num

OrderedAdd ==
    \E mfg_batch \in OrderedEntities :
        /\ After(mfg_batch.start_commit_num) \/ Paired(mfg_batch)
        /\ StoreCommit(store_add_mfg_batch(db, mfg_batch, NoFault),
                       [op |-> "add", commit |-> mfg_batch.start_commit_num])

OrderedUpdate ==
    \E mfg_batch_id \in StoreIds : \E service_id \in ServiceIds :
    \E current_commit_num \in 1..MaxOrderedCommit :
        /\ After(current_commit_num)
        /\ StoreCommit(store_update_mfg_batch(db, mfg_batch_id, service_id,
                                              current_commit_num, NoFault),
                       [op |-> "update", commit |-> current_commit_num,
                        id |-> mfg_batch_id, service_id |-> service_id])

OrderedDelete ==
    \E mfg_batch_id \in StoreIds : \E current_commit_num \in 1..MaxOrderedCommit :
        /\ After(current_commit_num)
        /\ StoreCommit(store_delete_mfg_batch(db, compute_gs1_mfg_batch_address(mfg_batch_id),
                                              current_commit_num, NoFault),
                       [op |-> "delete", commit |-> current_commit_num])

NextStoreOrdered == OrderedAdd \/ OrderedUpdate \/ OrderedDelete

SpecStoreOrdered == InitStore /\ [][NextStoreOrdered]_vars

(***************************************************************************)
(* The store of two batches whose ids pad to one address                   *)
(***************************************************************************)
\* "1" and "01"
CollidingIds == {<<49>>, <<48, 49>>}

CollidingEntities ==
    UNION {{StoreMfgBatchBuilder_build(k[1], compute_gs1_mfg_batch_address(k[1]), "GS1",
                                       <<65>>, k[2], MAX_COMMIT_NUM, k[3], ps).value :
               ps \in StorePropLists(k[1], k[2], k[3])} :
           k \in CollidingIds \X CommitNums \X ServiceIds}

CollidingAdd ==
    \E mfg_batch \in CollidingEntities :
        /\ Len(db.mfg_batch) < MaxRows
        /\ mfg_batch.start_commit_num >= last.commit
        /\ StoreCommit(store_add_mfg_batch(db, mfg_batch, NoFault),
                       [op |-> "add", commit |-> mfg_batch.start_commit_num])

NextStoreColliding ==
    \/ CollidingAdd
    \/ StoreUpdate(CollidingIds, {NoFault})
    \/ StoreDelete(CollidingIds, {NoFault})

SpecStoreColliding == InitStore /\ [][NextStoreColliding]_vars

(***************************************************************************)
(* Properties of the merge engine                                          *)
(***************************************************************************)
\* the order of ids, stated apart from the sort's own comparison
RECURSIVE IdBefore(_, _)
IdBefore(a, b) ==
    IF b = <<>> THEN FALSE
    ELSE IF a = <<>> THEN TRUE
    ELSE IF Head(a) # Head(b) THEN Head(a) < Head(b)
    ELSE IdBefore(Tail(a), Tail(b))

AddressOf(id) == compute_gs1_mfg_batch_address(id)

\* the Record List decoded from the bytes at an address of st
RecordListAt(st, a) ==
    IF a \in DOMAIN st THEN MfgBatchList_from_bytes(st[a]) ELSE [ok |-> TRUE, val |-> <<>>]

Ascending(l) ==
    \A i, j \in 1..Len(l) : i < j => IdBefore(l[i].mfg_batch_id, l[j].mfg_batch_id)

Colliding(id) == {b \in Ids \ {id} : AddressOf(b) = AddressOf(id)}

\* C1: from the empty ledger, after any sequence of set_mfg_batch(id, e) with
\* e.mfg_batch_id = id and remove_mfg_batch(id), every stored Record List
\* decodes, is in ascending order of mfg_batch_id and holds no id twice.
C1_SortedNoDuplicates ==
    \A a \in DOMAIN ledger :
        /\ RecordListAt(ledger, a).ok
        /\ Ascending(RecordListAt(ledger, a).val)

\* a set put a new id in front of a colliding one that was pushed before it
C1_Witness ==
    /\ last.op = "set"
    /\ ~last.existed
    /\ Len(RecordListAt(ledger, AddressOf(last.id)).val) >= 2
    /\ RecordListAt(ledger, AddressOf(last.id)).val[1].mfg_batch_id = last.id

\* C2: after any sequence of create, update and delete transactions, accepted
\* or rejected, get_mfg_batch(id) returns the batch the most recent accepted
\* create or update of id wrote if no accepted delete of id followed it, and
\* None otherwise; after the accepted delete of the only batch at an address
\* the address has no state entry.
C2_HandlerRefinesMap ==
    /\ \A id \in Ids : get_mfg_batch(ledger, id) = Ok(expected[id])
    /\ (last.op = "delete" /\ result.kind = "Ok"
           /\ \A b \in Colliding(last.id) : expected[b] = None)
          => AddressOf(last.id) \notin DOMAIN ledger

\* a batch was created and updated, then deleted, and its address has no entry
C2_Witness ==
    /\ last.op = "delete"
    /\ result.kind = "Ok"
    /\ last.existed
    /\ expected[last.id] = None
    /\ AddressOf(last.id) \notin DOMAIN ledger

C4_SetFrame ==
    [][ (last'.op = "set" /\ result'.kind = "Ok") =>
          /\ \A b \in Ids \ {last'.id} :
                 get_mfg_batch(ledger', b) = get_mfg_batch(ledger, b)
          /\ get_mfg_batch(ledger', last'.id) = Ok(Some(last'.mfg_batch))
          /\ Len(RecordListAt(ledger', AddressOf(last'.id)).val)
                 = Len(RecordListAt(ledger, AddressOf(last'.id)).val)
                     + (IF last'.existed THEN 0 ELSE 1)
          /\ Ascending(RecordListAt(ledger', AddressOf(last'.id)).val)
      ]_vars

\* two colliding ids are stored, the second set just now, and both are found
C4_Witness ==
    /\ last.op = "set"
    /\ result.kind = "Ok"
    /\ ~last.existed
    /\ Len(RecordListAt(ledger, AddressOf(last.id)).val) = 2
    /\ \E b \in Colliding(last.id) :
           /\ expected[b] # None
           /\ get_mfg_batch(ledger, b) = Ok(expected[b])

\* C5: remove_mfg_batch(a) leaves every other batch intact: get_mfg_batch(b)
\* returns the same value after the remove as before it for every b # a,
\* colliding ids included.
C5_RemoveFrame ==
    [][ (last'.op = "remove" /\ result'.kind = "Ok") =>
          \A b \in Ids \ {last'.id} :
              get_mfg_batch(ledger', b) = get_mfg_batch(ledger, b)
      ]_vars

\* a stored batch was removed and a colliding batch is still found
C5_Witness ==
    /\ last.op = "remove"
    /\ last.existed
    /\ \E b \in Colliding(last.id) : Exists(ledger, b)

\* C6: no address holds an encoded empty Record List, and after a
\* remove_mfg_batch the address has an entry exactly when another batch is
\* left at it.
C6_NoEmptyRecordList ==
    /\ \A a \in DOMAIN ledger :
           RecordListAt(ledger, a).ok /\ RecordListAt(ledger, a).val # <<>>
    /\ (last.op = "remove" /\ result.kind = "Ok") =>
           (AddressOf(last.id) \in DOMAIN ledger
                <=> \E b \in Colliding(last.id) : Exists(ledger, b))

\* the only batch at an address was removed and the entry is gone
C6_Witness ==
    /\ last.op = "remove"
    /\ last.existed
    /\ AddressOf(last.id) \notin DOMAIN ledger

\* the ids the history holds at an address, and their batches in ascending order
LiveAt(a) == {id \in Ids : expected[id] # None /\ AddressOf(id) = a}

RECURSIVE AscendingBatches(_)
AscendingBatches(S) ==
    IF S = {} THEN <<>>
    ELSE LET m == CHOOSE x \in S : \A y \in S \ {x} : IdBefore(x, y)
         IN <<expected[m][1]>> \o AscendingBatches(S \ {m})

\* C7: the stored state is a function of the mapping from id to batch alone:
\* an address has an entry exactly when some batch of the mapping lives at it,
\* and the entry is the encoding of those batches in ascending order of id,
\* whatever the order of the calls that led to the mapping.
C7_Canonical ==
    /\ DOMAIN ledger = {a \in Addresses : LiveAt(a) # {}}
    /\ \A a \in DOMAIN ledger :
           /\ RecordListAt(ledger, a).ok
           /\ RecordListAt(ledger, a).val = AscendingBatches(LiveAt(a))
           /\ ledger[a] = MfgBatchList_into_bytes(AscendingBatches(LiveAt(a)))

\* after a remove, some address still holds two batches of the mapping
C7_Witness ==
    /\ last.op = "remove"
    /\ last.existed
    /\ \E a \in DOMAIN ledger : Cardinality(LiveAt(a)) = 2

Undecodable(st, id) ==
    /\ AddressOf(id) \in DOMAIN st
    /\ ~MfgBatchList_from_bytes(st[AddressOf(id)]).ok

\* C8: when the bytes at the address of the id do not decode, get_mfg_batch,
\* set_mfg_batch and remove_mfg_batch each return an InternalError (never
\* Ok(None)) and leave the ledger as it was.
C8_DecodeFailure ==
    [][ (last'.op \in {"get", "set", "remove"} /\ Undecodable(ledger, last'.id)) =>
          /\ result'.kind = "InternalError"
          /\ ledger' = ledger
      ]_vars

\* a set on an address whose bytes do not decode was refused
C8_Witness ==
    /\ last.op = "set"
    /\ result.kind = "InternalError"
    /\ Undecodable(ledger, last.id)

\* C9: a create, update or delete transaction that is rejected with an error,
\* InvalidTransaction or InternalError, leaves the ledger as it was before the
\* transaction.
C9_RejectedLeavesState ==
    [][ (last'.op \in {"create", "update", "delete"} /\ result'.kind # "Ok")
            => ledger' = ledger ]_vars

\* a transaction passed every check and was rejected by the write itself
C9_Witness ==
    /\ last.op \in {"create", "update", "delete"}
    /\ result.kind # "Ok"
    /\ result.msg = "Cannot serialize mfg_batch list"

\* C10, as the specification states it: a create for an id get_mfg_batch finds
\* is rejected with "Product already exists", an update or a delete for an id
\* it does not find with "No mfg_batch exists".
C10_ExistenceMessage ==
    /\ (last.op = "create" /\ last.existed) =>
           (result.kind = "InvalidTransaction" /\ result.msg = "Product already exists")
    /\ (last.op \in {"update", "delete"} /\ ~last.existed) =>
           (result.kind = "InvalidTransaction" /\ result.msg = "No mfg_batch exists")

\* C10, amended: a create for an id get_mfg_batch finds is rejected with an
\* InvalidTransaction and writes nothing, and the message is "Product already
\* exists" when the payload is valid and the signer holds the create
\* permission; an update or a delete for an id get_mfg_batch does not find is
\* rejected with an InvalidTransaction and writes nothing, and the message is
\* "No mfg_batch exists" when the payload decodes with its timestamp set.
C10_ExistenceChecks ==
    [][ /\ (last'.op = "create" /\ last'.existed) =>
               /\ result'.kind = "InvalidTransaction"
               /\ ledger' = ledger
               /\ last'.perm = "true" => result'.msg = "Product already exists"
        /\ (last'.op \in {"update", "delete"} /\ ~last'.existed) =>
               /\ result'.kind = "InvalidTransaction"
               /\ ledger' = ledger
               /\ (last'.decoded /\ last'.timestamp # 0) =>
                      result'.msg = "No mfg_batch exists"
      ]_vars

\* a permitted signer's create of a stored id was refused as a duplicate
C10_Witness ==
    /\ last.op = "create"
    /\ last.existed
    /\ last.perm = "true"
    /\ result.msg = "Product already exists"

\* C11: for every create, update and delete transaction that reaches the
\* permission check, when has_permission returns false or an error the
\* transaction is rejected with an InvalidTransaction that names the missing
\* permission, and nothing is written to the ledger.
C11_PermissionDenied ==
    [][ (last'.op \in {"create", "update", "delete"} /\ last'.perm \in {"false", "error"}) =>
          /\ result'.kind = "InvalidTransaction"
          /\ result'.permission = PermissionName(last'.op)
          /\ ledger' = ledger
      ]_vars

\* the property definitions of the gs1 schema, and the names a property list
\* offends them by: names the schema does not define, and required names the
\* list does not hold with the schema's data type
Gs1Definitions == {Schema("gs1")[1].properties[j] : j \in 1..Len(Schema("gs1")[1].properties)}

OffendingNames(properties) ==
    LET held == {properties[k] : k \in 1..Len(properties)}
    IN {p.name : p \in {q \in held : \A d \in Gs1Definitions : d.name # q.name}}
       \cup {d.name : d \in {e \in Gs1Definitions :
                               /\ e.required
                               /\ \A q \in held : ~(q.name = e.name /\ q.data_type = e.data_type)}}

\* C12: a create or update transaction is accepted only if the gs1_mfg_batch
\* schema exists, every property name of the payload is defined by it and every
\* required property of the schema is in the payload with the same name and
\* data type; a transaction whose properties offend the schema is rejected with
\* an InvalidTransaction that names an offending property, and one that finds
\* no schema with an InvalidTransaction.
C12_SchemaConformance ==
    (last.op \in {"create", "update"}) =>
        /\ result.kind = "Ok" =>
               (last.schema = "gs1" /\ OffendingNames(last.properties) = {})
        /\ last.schema = "none" => result.kind = "InvalidTransaction"
        /\ (last.schema = "gs1" /\ last.properties # <<>>
                /\ OffendingNames(last.properties) # {}) =>
               /\ result.kind = "InvalidTransaction"
               /\ result.arg \in OffendingNames(last.properties)

\* an update whose counter has the data type String was refused for the counter
C12_Witness ==
    /\ last.op = "update"
    /\ last.properties = <<CounterAsString, Description>>
    /\ result.kind = "InvalidTransaction"
    /\ result.msg = "Missing required field"
    /\ result.arg = <<99>>

\* the batch get_mfg_batch finds for an id that is stored
Stored(st, id) == get_mfg_batch(st, id).value[1]

\* two answers of get_mfg_batch that both hold a batch name the same owner
SameOwner(r0, r1) ==
    (IsSome(r0) /\ IsSome(r1)) => r1.value[1].owner = r0.value[1].owner

\* the answers of get_mfg_batch before (r0) and after (r1) an accepted update obs: the
\* batch was and is stored, with the payload's properties and its id and namespace
UpdateReplaced(r0, r1, obs) ==
    /\ IsSome(r0) /\ IsSome(r1)
    /\ r1.value[1].properties = obs.properties
    /\ r1.value[1].mfg_batch_id = obs.id
    /\ r1.value[1].mfg_batch_namespace = r0.value[1].mfg_batch_namespace

\* C13: an accepted update transaction replaces the whole property list of the
\* batch with the payload's properties and leaves its mfg_batch_id and its
\* owner unchanged; no transaction changes the owner of a batch that is stored
\* before and after it, so the owner of a live batch is the one its create gave.
C13_UpdateKeepsOwner ==
    [][ /\ (last'.op = "update" /\ result'.kind = "Ok") =>
               UpdateReplaced(get_mfg_batch(ledger, last'.id),
                              get_mfg_batch(ledger', last'.id), last')
        /\ ledger' # ledger =>
               \A id \in Ids :
                   SameOwner(get_mfg_batch(ledger, id), get_mfg_batch(ledger', id))
      ]_vars

\* a batch created for owner B carries the properties of an update, and owner B
C13_Witness ==
    /\ last.op = "update"
    /\ result.kind = "Ok"
    /\ last.properties = <<Counter2, Description>>
    /\ Stored(ledger, last.id).properties = <<Counter2, Description>>
    /\ Stored(ledger, last.id).owner = <<66>>

\* the characters of an address from position i to position j are all '0'
AllZero(a, i, j) == \A k \in i..j : a[k] = 48

C15_LongKeyRejected ==
    (last.op = "address" /\ Len(last.id) > 14) => result.kind # "Ok"

\* C16: two distinct business keys of at most 14 characters never have the
\* same address.
C16_Injective ==
    (last.op = "address" /\ Len(last.id) <= 14) =>
        \A k \in BusinessKeys :
            (Len(k) <= 14 /\ k # last.id) =>
                compute_gs1_mfg_batch_address(k) # result.value

(***************************************************************************)
(* Properties of the projection store                                      *)
(***************************************************************************)
\* the row is the current version of its key
Open(row) == row.end_commit_num = MAX_COMMIT_NUM

SameKey(r1, r2) == r1.mfg_batch_id = r2.mfg_batch_id /\ r1.service_id = r2.service_id

\* no two open entity rows have the same (mfg_batch_id, service_id)
OneOpenRowPerKey ==
    \A i, j \in 1..Len(db.mfg_batch) :
        (Open(db.mfg_batch[i]) /\ Open(db.mfg_batch[j])
         /\ SameKey(db.mfg_batch[i], db.mfg_batch[j])) => i = j

\* an add that returned Ok appended one row, and the rows of its key that were open
\* now end at that row's start_commit_num
AddClosesAtStart ==
    (last'.op = "add" /\ result'.kind = "Ok") =>
        /\ Len(db'.mfg_batch) = Len(db.mfg_batch) + 1
        /\ \A i \in 1..Len(db.mfg_batch) :
              (Open(db.mfg_batch[i])
               /\ SameKey(db.mfg_batch[i], db'.mfg_batch[Len(db'.mfg_batch)]))
              => db'.mfg_batch[i] =
                     [db.mfg_batch[i] EXCEPT !.end_commit_num =
                         db'.mfg_batch[Len(db'.mfg_batch)].start_commit_num]

\* C17: after any sequence of add_mfg_batch, update_mfg_batch and delete_mfg_batch at
\* most one entity row with end_commit_num = MAX_COMMIT_NUM exists for each
\* (mfg_batch_id, service_id), and add closes the open rows of its key at the new
\* row's start_commit_num before it inserts.
C17_OneOpenRowPerKey == []OneOpenRowPerKey /\ [][AddClosesAtStart]_vars

\* an add found an open row of its key, closed it and inserted an open row
C17_Witness ==
    /\ last.op = "add"
    /\ result.kind = "Ok"
    /\ last.closed > 0
    /\ Open(db.mfg_batch[Len(db.mfg_batch)])
    /\ \E i \in 1..(Len(db.mfg_batch) - 1) :
          /\ SameKey(db.mfg_batch[i], db.mfg_batch[Len(db.mfg_batch)])
          /\ db.mfg_batch[i].start_commit_num < db.mfg_batch[i].end_commit_num
          /\ db.mfg_batch[i].end_commit_num =
                 db.mfg_batch[Len(db.mfg_batch)].start_commit_num

\* C18: in every reachable state of the projection store every entity row and every
\* property row has start_commit_num < end_commit_num (the current version being the
\* row whose end_commit_num is MAX_COMMIT_NUM).
C18_IntervalsNotEmpty ==
    /\ \A i \in 1..Len(db.mfg_batch) :
          db.mfg_batch[i].start_commit_num < db.mfg_batch[i].end_commit_num
    /\ \A i \in 1..Len(db.mfg_batch_property_value) :
          db.mfg_batch_property_value[i].start_commit_num
              < db.mfg_batch_property_value[i].end_commit_num

\* C19: in every state the store exposes between operations, an open property row of an
\* mfg_batch_id exists only if an open entity row of that mfg_batch_id exists.
C19_OpenPropertyHasOpenEntity ==
    \A i \in 1..Len(db.mfg_batch_property_value) :
        Open(db.mfg_batch_property_value[i]) =>
            \E j \in 1..Len(db.mfg_batch) :
                /\ Open(db.mfg_batch[j])
                /\ db.mfg_batch[j].mfg_batch_id = db.mfg_batch_property_value[i].mfg_batch_id

\* C20: the entity row that an accepted add_mfg_batch(e) inserts has
\* end_commit_num = MAX_COMMIT_NUM, whatever end_commit_num e carries.
C20_InsertedRowIsOpen ==
    (last.op = "add" /\ result.kind = "Ok") => Open(db.mfg_batch[Len(db.mfg_batch)])

\* the rows of the table at the address of the id
AtAddressOf(row, id) == row.mfg_batch_address = compute_gs1_mfg_batch_address(id)

\* every row of the old table is in the new one at its place: unchanged, or closed at
\* the commit number if it was open at the address
ClosedAt(old, new, address, commit) ==
    /\ Len(new) = Len(old)
    /\ \A i \in 1..Len(old) :
          new[i] = IF Open(old[i]) /\ old[i].mfg_batch_address = address
                   THEN [old[i] EXCEPT !.end_commit_num = commit]
                   ELSE old[i]

\* no row of the table is open at the address
NoneOpenAt(table, address) ==
    \A i \in 1..Len(table) : table[i].mfg_batch_address = address => ~Open(table[i])

\* what a delete of the id at the address made of the old database
DeleteClosed(old, new, address, obs) ==
    /\ ClosedAt(old.mfg_batch, new.mfg_batch, address, obs.commit)
    /\ ClosedAt(old.mfg_batch_property_value, new.mfg_batch_property_value,
                address, obs.commit)
    /\ NoneOpenAt(new.mfg_batch, address)
    /\ NoneOpenAt(new.mfg_batch_property_value, address)
    /\ \A service_id \in ServiceIds :
          store_get_mfg_batch(new, obs.id, service_id, NoFault).res = Ok(None)

DeleteClosesAddress ==
    (last'.op = "delete" /\ result'.kind = "Ok") =>
        DeleteClosed(db, db', compute_gs1_mfg_batch_address(last'.id), last')

\* C21: delete_mfg_batch(address, c) sets end_commit_num = c on the open entity row and
\* on all open property rows at that address and inserts no row, so that afterwards no
\* row at that address has end_commit_num = MAX_COMMIT_NUM and get_mfg_batch for that
\* batch returns None.
C21_DeleteCloses == [][DeleteClosesAddress]_vars

\* a delete closed the one entity row of the store, with the property rows of the
\* batch: the row ends where it starts, at the commit number of the delete, as no row
\* that an add inserts does, and no add came after the one that inserted it
C21_Witness ==
    /\ last.op = "delete"
    /\ result.kind = "Ok"
    /\ Len(db.mfg_batch) = 1
    /\ AtAddressOf(db.mfg_batch[1], last.id)
    /\ db.mfg_batch[1].start_commit_num = last.commit
    /\ db.mfg_batch[1].end_commit_num = last.commit
    /\ \E i \in 1..Len(db.mfg_batch_property_value) :
          /\ AtAddressOf(db.mfg_batch_property_value[i], last.id)
          /\ db.mfg_batch_property_value[i].start_commit_num = last.commit
          /\ db.mfg_batch_property_value[i].end_commit_num = last.commit

\* the row is one the update of (id, service_id) is to close: open, of the id, and of
\* the service if one is given
UpdateTarget(row, obs) ==
    /\ Open(row)
    /\ row.mfg_batch_id = obs.id
    /\ obs.service_id # None => row.service_id = obs.service_id

UpdateClosesProperties ==
    (last'.op = "update" /\ result'.kind = "Ok") =>
        /\ db'.mfg_batch = db.mfg_batch
        /\ Len(db'.mfg_batch_property_value) = Len(db.mfg_batch_property_value)
        /\ \A i \in 1..Len(db.mfg_batch_property_value) :
              db'.mfg_batch_property_value[i] =
                  IF UpdateTarget(db.mfg_batch_property_value[i], last')
                  THEN [db.mfg_batch_property_value[i] EXCEPT
                            !.end_commit_num = last'.commit]
                  ELSE db.mfg_batch_property_value[i]

\* C22: update_mfg_batch(id, svc, c) changes only the end_commit_num of property rows of
\* id that are open (setting it to c): it leaves every entity row, every already-closed
\* property row and every row of any other mfg_batch_id unchanged, and inserts no row.
C22_UpdateFrame == [][UpdateClosesProperties]_vars

\* an update closed property rows of its key while an open property row of another id
\* and the open entity row of its id stayed as they were: the rows end where they
\* start, at the commit number of the update, and no delete closed them, as the entity
\* row is open
C22_Witness ==
    /\ last.op = "update"
    /\ result.kind = "Ok"
    /\ \E i \in 1..Len(db.mfg_batch_property_value) :
          /\ UpdateTarget([db.mfg_batch_property_value[i] EXCEPT
                               !.end_commit_num = MAX_COMMIT_NUM], last)
          /\ db.mfg_batch_property_value[i].start_commit_num = last.commit
          /\ db.mfg_batch_property_value[i].end_commit_num = last.commit
    /\ \E i \in 1..Len(db.mfg_batch_property_value) :
          /\ db.mfg_batch_property_value[i].mfg_batch_id # last.id
          /\ Open(db.mfg_batch_property_value[i])
    /\ \E i \in 1..Len(db.mfg_batch) :
          db.mfg_batch[i].mfg_batch_id = last.id /\ Open(db.mfg_batch[i])

\* the new table holds every row of the old one at its place; a row that was closed is
\* unchanged, a row that was open differs at most in its end_commit_num
Appended(old, new) ==
    /\ Len(new) >= Len(old)
    /\ \A i \in 1..Len(old) :
          IF Open(old[i])
          THEN new[i] = [old[i] EXCEPT !.end_commit_num = new[i].end_commit_num]
          ELSE new[i] = old[i]

\* C24: the projection store history is append-only: no operation ever removes a row,
\* and once a row's end_commit_num differs from MAX_COMMIT_NUM no later add, update or
\* delete changes any field of that row; the only mutation of an existing row is
\* setting end_commit_num of an open row.
C24_AppendOnly ==
    [][ /\ Appended(db.mfg_batch, db'.mfg_batch)
        /\ Appended(db.mfg_batch_property_value, db'.mfg_batch_property_value) ]_vars

\* a delete at the second commit height met rows of its address that had been closed
\* at the first: they still end there
C24_Witness ==
    /\ last.op = "delete"
    /\ result.kind = "Ok"
    /\ last.commit = 2
    /\ \E i \in 1..Len(db.mfg_batch) :
          AtAddressOf(db.mfg_batch[i], last.id) /\ db.mfg_batch[i].end_commit_num = 1
    /\ \E i \in 1..Len(db.mfg_batch_property_value) :
          /\ AtAddressOf(db.mfg_batch_property_value[i], last.id)
          /\ db.mfg_batch_property_value[i].end_commit_num = 1

\* an open entity row of the id whose service_id is the one asked for (null if none)
OpenRowOf(mfg_batch_id, service_id) ==
    \E i \in 1..Len(db.mfg_batch) :
        /\ db.mfg_batch[i].mfg_batch_id = mfg_batch_id
        /\ Open(db.mfg_batch[i])
        /\ db.mfg_batch[i].service_id = service_id

\* C25: get_mfg_batch(id, svc) returns Some exactly when an entity row exists with that
\* mfg_batch_id, end_commit_num = MAX_COMMIT_NUM and service_id equal to svc (a null
\* service_id when svc is not given); an open row of the same id under a different
\* service_id is never returned.
C25_GetCurrentOfService ==
    (last.op = "get" /\ result.kind = "Ok") =>
        /\ result.value # None <=> OpenRowOf(last.id, last.service_id)
        /\ result.value # None =>
              /\ result.value[1].mfg_batch_id = last.id
              /\ result.value[1].service_id = last.service_id
              /\ result.value[1].end_commit_num = MAX_COMMIT_NUM

\* a get returned None for a service while the id has an open row of another service
C25_Witness ==
    /\ last.op = "get"
    /\ result = Ok(None)
    /\ \E service_id \in ServiceIds \ {last.service_id} :
          OpenRowOf(last.id, service_id)

\* C27: the recursive property resolution of get_mfg_batch and list_mfg_batches
\* (get_property_values) terminates for every state of the projection store reachable
\* through add, update and delete: it never comes back to a property row on the
\* recursion path.
C27_ResolutionTerminates ==
    /\ last.op \in {"get", "list"} => result.kind # "Diverges"
    /\ \A id \in StoreIds :
          get_property_values(db.mfg_batch_property_value,
              get_root_values(db.mfg_batch_property_value, id), {}).kind = "Ok"

\* a get resolved the properties of a batch whose property table holds open rows with a
\* parent
C27_Witness ==
    /\ last.op = "get"
    /\ result.kind = "Ok"
    /\ result.value # None
    /\ result.value[1].properties # <<>>
    /\ \E i \in 1..Len(db.mfg_batch_property_value) :
          /\ db.mfg_batch_property_value[i].parent_property # None
          /\ db.mfg_batch_property_value[i].mfg_batch_id = last.id
          /\ Open(db.mfg_batch_property_value[i])

\* the rows of a table with the key of the entity whose interval holds a commit number
\* from c1 up to, not including, c2
RowsWithin(table, mfg_batch, c1, c2) ==
    {table[i] : i \in {j \in 1..Len(table) :
                          /\ SameKey(table[j], mfg_batch)
                          /\ \E c \in c1..(c2 - 1) :
                                /\ table[j].start_commit_num <= c
                                /\ c < table[j].end_commit_num}}

\* the rows of a sequence, each ending at the commit number
EndingAt(rows, commit) ==
    {[rows[i] EXCEPT !.end_commit_num = commit] : i \in 1..Len(rows)}

\* the get of the key of the entity
GetOf(mfg_batch) ==
    /\ last.op = "get"
    /\ last.id = mfg_batch.mfg_batch_id
    /\ last.service_id = mfg_batch.service_id

HistoryHoldsOriginal(orig, repl) ==
    /\ RowsWithin(db.mfg_batch, orig, orig.start_commit_num, repl.start_commit_num)
           = {[NewMfgBatch(orig) EXCEPT !.end_commit_num = repl.start_commit_num]}
    /\ RowsWithin(db.mfg_batch_property_value, orig, orig.start_commit_num,
                  repl.start_commit_num)
           = EndingAt(make_property_values(None, orig.properties),
                      repl.start_commit_num)

\* C23: after add_mfg_batch(e) at commit c1, then update_mfg_batch(id, svc, c2) and
\* add_mfg_batch of a replacement at c2 (c1 < c2), get_mfg_batch(id, svc) returns the
\* replacement with the replacement's properties, and the rows whose interval contains
\* any commit c with c1 <= c < c2 are exactly the original entity row and the original
\* property rows.
C23_ReplacementIsCurrent ==
    expected.phase = 3 =>
        /\ HistoryHoldsOriginal(expected.orig[1], expected.added[1])
        /\ GetOf(expected.added[1]) => result = Ok(Some(expected.added[1]))

\* C26: property trees round-trip through the projection store: after add_mfg_batch(e)
\* where e has a struct property with child PropertyValues, get_mfg_batch returns that
\* property with struct_values equal to those children, and a property without
\* children is returned as a leaf with empty struct_values.
C26_PropertyTreeRoundTrip ==
    (expected.added # None /\ GetOf(expected.added[1])
     /\ result.kind = "Ok" /\ result.value # None) =>
        \A k \in 1..Len(expected.added[1].properties) :
            \E j \in 1..Len(result.value[1].properties) :
                /\ result.value[1].properties[j].property_name
                       = expected.added[1].properties[k].property_name
                /\ result.value[1].properties[j].service_id
                       = expected.added[1].properties[k].service_id
                /\ result.value[1].properties[j].struct_values
                       = expected.added[1].properties[k].struct_values

\* C28: list_mfg_batches(svc, offset, limit) reports a total count equal to the number
\* of all open entity rows matching svc, independent of offset and limit.
C28_TotalIsFullCount ==
    (last.op = "list" /\ result.kind = "Ok") =>
        result.value.paging.total =
            Cardinality({i \in 1..Len(db.mfg_batch) :
                            /\ Open(db.mfg_batch[i])
                            /\ db.mfg_batch[i].service_id = last.service_id})

\* C29: add_mfg_batch is atomic: if inserting the property rows fails after the prior
\* open rows were closed and the entity row was inserted, the whole operation is rolled
\* back and the store holds exactly the rows (with the same end_commit_num values) it
\* held before the call.
C29_AddAtomic == [][(last'.op = "add" /\ result'.kind # "Ok") => db' = db]_vars

\* an add that found an open row of its key failed on a constraint of the property
\* table: the row is still open and the table has no row of the add
C29_Witness ==
    /\ last.op = "add"
    /\ result.kind = "ConstraintViolationError"
    /\ last.closed > 0
    /\ Len(db.mfg_batch) = 1
    /\ Open(db.mfg_batch[1])

\* C30: MfgBatchBuilder::build and PropertyValueBuilder::build of the projection store
\* return a value only when every required field is non-empty (mfg_batch_id,
\* mfg_batch_address, and namespace and owner or property_name and data_type) and
\* start_commit_num < end_commit_num; in every other case they return an error and no
\* value.
C30_BuildersValidate ==
    /\ last.op = "build_mfg_batch" =>
          IF /\ last.id # <<>> /\ last.address # <<>>
             /\ last.namespace # "" /\ last.owner # <<>>
             /\ last.start_commit_num < last.end_commit_num
          THEN result = Ok([mfg_batch_id |-> last.id, mfg_batch_address |-> last.address,
                            mfg_batch_namespace |-> last.namespace, owner |-> last.owner,
                            start_commit_num |-> last.start_commit_num,
                            end_commit_num |-> last.end_commit_num,
                            service_id |-> None, properties |-> <<>>])
          ELSE result.kind = "MissingRequiredField"
    /\ last.op = "build_property_value" =>
          IF /\ last.id # <<>> /\ last.address # <<>>
             /\ last.name # <<>> /\ last.data_type # ""
             /\ last.start_commit_num < last.end_commit_num
          THEN result = Ok([mfg_batch_id |-> last.id, mfg_batch_address |-> last.address,
                            property_name |-> last.name, data_type |-> last.data_type,
                            struct_values |-> <<>>,
                            start_commit_num |-> last.start_commit_num,
                            end_commit_num |-> last.end_commit_num, service_id |-> None])
          ELSE result.kind = "MissingRequiredField"

\* the entity builder was given every field and an interval that is empty, and
\* returned an error
C30_Witness ==
    /\ last.op = "build_mfg_batch"
    /\ last.id # <<>> /\ last.address # <<>>
    /\ last.namespace # "" /\ last.owner # <<>>
    /\ last.start_commit_num = last.end_commit_num
    /\ result.kind = "MissingRequiredField"

\* C31: the projection-store builders report a missing required field and an invalid
\* interval (start_commit_num >= end_commit_num) as two distinct error kinds, so a
\* caller can tell them apart by the error variant.
C31_IntervalErrorIsDistinct ==
    /\ (/\ last.op = "build_mfg_batch"
        /\ last.id # <<>> /\ last.address # <<>>
        /\ last.namespace # "" /\ last.owner # <<>>
        /\ last.start_commit_num >= last.end_commit_num)
           => (result.kind # "Ok" /\ result.kind # "MissingRequiredField")
    /\ (/\ last.op = "build_property_value"
        /\ last.id # <<>> /\ last.address # <<>>
        /\ last.name # <<>> /\ last.data_type # ""
        /\ last.start_commit_num >= last.end_commit_num)
           => (result.kind # "Ok" /\ result.kind # "MissingRequiredField")

RECURSIVE RowsOfTree(_, _, _)
RowsOfTree(parent_property, properties, start) ==
    IF properties = <<>> THEN <<>>
    ELSE <<[mfg_batch_id |-> Head(properties).mfg_batch_id,
            mfg_batch_address |-> Head(properties).mfg_batch_address,
            property_name |-> Head(properties).property_name,
            parent_property |-> parent_property,
            data_type |-> Head(properties).data_type,
            start_commit_num |-> start, end_commit_num |-> MAX_COMMIT_NUM,
            service_id |-> Head(properties).service_id]>>
         \o RowsOfTree(Some(Head(properties).mfg_batch_id \o <<58>>
                                \o Head(properties).property_name),
                       Head(properties).struct_values, start)
         \o RowsOfTree(parent_property, Tail(properties), start)

\* the rows of the table after the first n
RowsAfter(table, n) == SubSeq(table, n + 1, Len(table))

\* C33: add_mfg_batch(e) inserts exactly one property row per PropertyValue node of e's
\* property tree: root properties get a null parent_property, and each child of a
\* struct property gets parent_property = "<parent mfg_batch_id>:<parent property_name>"
\* and the same start commit number as its parent and the entity.
C33_OneRowPerNode ==
    (last.op = "add" /\ result.kind = "Ok") =>
        RowsAfter(db.mfg_batch_property_value, last.rows)
            = RowsOfTree(None, last.e.properties, last.e.start_commit_num)

\* the payload of the last transaction was decoded and passed validate_payload
PayloadValidated ==
    /\ last.decoded
    /\ last.timestamp # 0
    /\ last.op = "create" => (last.id # <<>> /\ last.owner # <<>>)

\* C34: in a create transaction the permission check is the first check: a signer
\* without the can-create permission for the owner always receives the permission
\* error, whether or not the batch already exists, the owner organization exists, or
\* the schema is defined; in update and delete the namespace and existence checks
\* precede the permission check.
C34_PermissionCheckOrder ==
    /\ (last.op = "create" /\ PayloadValidated) =>
          /\ last.perm # "unread"
          /\ last.perm = "false" =>
                /\ result.kind = "InvalidTransaction"
                /\ result.msg = "The signer does not have the permission"
                /\ result.arg = last.owner
                /\ last.org = "unread" /\ last.schema = "unread"
    /\ (last.op \in {"update", "delete"} /\ PayloadValidated) =>
          IF last.existed THEN last.perm # "unread"
          ELSE /\ last.perm = "unread"
               /\ result = InvalidTransactionOf("No mfg_batch exists", last.id)

\* a create for a stored id by a signer without the permission was refused for the
\* permission, not for the id
C34_Witness ==
    /\ last.op = "create"
    /\ PayloadValidated
    /\ last.existed
    /\ last.perm = "false"
    /\ result.msg = "The signer does not have the permission"

\* whether r reports that the merged Record List could not be encoded
SerializeFailure(r) ==
    r.kind # "Ok" /\ r.msg = "Cannot serialize mfg_batch list"

\* C35: a set_mfg_batch or remove_mfg_batch whose merged Record List fails to
\* encode reports an internal error, not a caller-input error, and leaves the
\* ledger as it was
C35_EncodeFailureIsInternal ==
    [][(last'.op \in {"set", "remove"} /\ SerializeFailure(result'))
           => (result'.kind = "InternalError" /\ ledger' = ledger)]_vars

\* the calls an operation on mfg_batch_id may make: one read of its address, then
\* at most one write or delete of the same address
OneReadThenOneWrite(log, address) ==
    /\ Len(log) \in {1, 2}
    /\ log[1] = <<"get", address>>
    /\ Len(log) = 2 => log[2] \in {<<"set", address>>, <<"delete", address>>}

\* C36: each get_mfg_batch, set_mfg_batch and remove_mfg_batch of an id reads the
\* address of the id exactly once and first, then writes or deletes that address at
\* most once, and touches no other address; get_mfg_batch only reads
C36_ReadThenWrite ==
    last.op \in {"get", "set", "remove"}
        => /\ OneReadThenOneWrite(last.log, compute_gs1_mfg_batch_address(last.id))
           /\ last.op = "get" => Len(last.log) = 1

\* a set_mfg_batch that read its address, found a batch of another id there and
\* wrote the merged list back
C36_Witness ==
    /\ last.op = "set"
    /\ result = Ok(Unit)
    /\ Len(last.log) = 2
    /\ last.log[2][1] = "set"
    /\ \E id \in Ids \ {last.id} : IsSome(get_mfg_batch(ledger, id))
                                    /\ compute_gs1_mfg_batch_address(id) = last.log[1][2]

\* a commit number lies in the version intervals of both rows
Overlap(r1, r2) ==
    \E c \in 0..(MaxOrderedCommit + 1) :
        /\ r1.start_commit_num <= c /\ c < r1.end_commit_num
        /\ r2.start_commit_num <= c /\ c < r2.end_commit_num

\* C37: with every entity added open-ended and add, update and delete applied in
\* increasing commit order (an update and its add at one number), no commit number
\* lies in the version intervals of two entity rows of one (mfg_batch_id, service_id)
C37_IntervalsDisjoint ==
    \A i, j \in 1..Len(db.mfg_batch) :
        (i # j /\ SameKey(db.mfg_batch[i], db.mfg_batch[j]))
            => ~Overlap(db.mfg_batch[i], db.mfg_batch[j])

\* a key with three versions: one closed by the add of the next, that one closed
\* later and before the third began
C37_Witness ==
    /\ last.op = "add"
    /\ result.kind = "Ok"
    /\ \E i, j, k \in 1..Len(db.mfg_batch) :
          /\ SameKey(db.mfg_batch[i], db.mfg_batch[j])
          /\ SameKey(db.mfg_batch[j], db.mfg_batch[k])
          /\ db.mfg_batch[i].end_commit_num = db.mfg_batch[j].start_commit_num
          /\ db.mfg_batch[j].end_commit_num < db.mfg_batch[k].start_commit_num
          /\ Open(db.mfg_batch[k])

\* the rows of another service than service_id are in the new table as they were
ServiceFrame(old, new, service_id) ==
    \A i \in 1..Len(old) : old[i].service_id # service_id => new[i] = old[i]

\* what an accepted add of an entity of service_id may change
AddWithinService(service_id) ==
    /\ ServiceFrame(db.mfg_batch, db'.mfg_batch, service_id)
    /\ ServiceFrame(db.mfg_batch_property_value, db'.mfg_batch_property_value, service_id)

\* C38: an accepted add_mfg_batch(e) and an accepted update_mfg_batch(id, svc, c)
\* leave every row whose service_id differs from e.service_id (from svc) as it was,
\* a call without a service changing only rows without a service
C38_WritesPerService ==
    [][/\ (last'.op = "add" /\ result'.kind = "Ok")
            => AddWithinService(db'.mfg_batch[Len(db'.mfg_batch)].service_id)
       /\ (last'.op = "update" /\ result'.kind = "Ok")
            => ServiceFrame(db.mfg_batch_property_value, db'.mfg_batch_property_value,
                            last'.service_id)]_vars

\* every property value of the list, and of its struct_values, is of the service
RECURSIVE AllOfService(_, _)
AllOfService(properties, service_id) ==
    \A i \in 1..Len(properties) :
        /\ properties[i].service_id = service_id
        /\ AllOfService(properties[i].struct_values, service_id)

\* the entities a get or a list returned
Returned ==
    IF result.kind # "Ok" THEN <<>>
    ELSE IF last.op = "get" THEN result.value
    ELSE IF last.op = "list" THEN result.value.data
    ELSE <<>>

\* C39: every property value that get_mfg_batch or list_mfg_batches returns has the
\* service_id of the entity it is returned with
C39_ReadsPerService ==
    \A i \in 1..Len(Returned) :
        AllOfService(Returned[i].properties, Returned[i].service_id)

\* the rows of another id than mfg_batch_id are in the new table as they were
IdFrame(old, new, mfg_batch_id) ==
    \A i \in 1..Len(old) : old[i].mfg_batch_id # mfg_batch_id => new[i] = old[i]

\* C40: an accepted delete_mfg_batch at the address of an id leaves every entity row
\* and every property row of another id as it was, also when the other id has the
\* same address
C40_DeleteOnlyItsId ==
    [][(last'.op = "delete" /\ result'.kind = "Ok")
           => /\ IdFrame(db.mfg_batch, db'.mfg_batch, last'.id)
              /\ IdFrame(db.mfg_batch_property_value, db'.mfg_batch_property_value,
                         last'.id)]_vars

====
